---- MODULE Spec2Model ----
(***************************************************************************)
(* Token lifecycle of security/jwt: issuance (tokenGenerator), validation  *)
(* (tokenValidator, on top of jwt.Parse of golang-jwt/v5), refresh         *)
(* (tokenRefresher) and the claims codec (claimsParser).                   *)
(*                                                                         *)
(* Time is an integer number of ticks since the Unix epoch, TicksPerSec    *)
(* ticks to a second, so that time.Time (sub-second) and Unix() (whole     *)
(* seconds) are different things.  Every time.Now() of the code is its own *)
(* read of the clock; the clock may advance between two reads.             *)
(***************************************************************************)
EXTENDS Integers, Sequences, FiniteSets, TLC

VARIABLES cfg, now, tok, src, parent, last

vars == <<cfg, now, tok, src, parent, last>>

\* ------------------------------------------------------------------ bounds
TicksPerSec == 2
MaxClockSec == 3
MaxScopes == 2

\* the clock starts one second after the epoch
T0 == TicksPerSec
MaxClock == MaxClockSec * TicksPerSec
\* how far the clock may advance between two reads of one call: not at all,
\* by one tick, or by more than a second
Drifts == {0, 1, TicksPerSec + 1}
\* the advances before the 2nd .. (n+1)th clock read of a call; the clock
\* advances at most once during a call
Advances(n) == {a \in [1..n -> Drifts] : Cardinality({i \in 1..n : a[i] # 0}) <= 1}
Advances1 == Advances(1)
Advances2 == Advances(2)
Advances3 == Advances(3)
Advances4 == Advances(4)

\* ------------------------------------------------------------ time helpers
\* time.Time.Unix(): whole seconds since the epoch (floor)
Unix(t) == t \div TicksPerSec
\* time.Unix(sec, 0)
TimeUnix(sec) == sec * TicksPerSec
\* int64(d.Seconds()): conversion of a float64 to int64 truncates toward zero
TruncSeconds(d) == IF d >= 0 THEN d \div TicksPerSec ELSE -((-d) \div TicksPerSec)
\* the zero time.Time
ZeroTime == [isZero |-> TRUE, t |-> 0]
At(t) == [isZero |-> FALSE, t |-> t]

\* ------------------------------------------------------- Go and JSON values
\* interface{} values, tagged with their dynamic type
Str(s) == <<"string", s>>
I64(n) == <<"int64", n>>
F64(n) == <<"float64", n>>
StrSlice(q) == <<"[]string", q>>
AnySlice(q) == <<"[]interface{}", q>>
MapVal(m) == <<"map[string]interface{}", m>>
Chan == <<"chan", 0>>

EmptyKV == [k \in {} |-> 0]
\* map[string]interface{}: nil or a map
NilMap == [isNil |-> TRUE, kv |-> EmptyKV]
GoMap(m) == [isNil |-> FALSE, kv |-> m]

RECURSIVE Marshalable(_)
\* json.Marshal fails on values that have no JSON form
Marshalable(v) ==
    CASE v[1] = "chan" -> FALSE
      [] v[1] = "[]interface{}" -> \A i \in 1..Len(v[2]) : Marshalable(v[2][i])
      [] v[1] = "map[string]interface{}" -> \A k \in DOMAIN v[2] : Marshalable(v[2][k])
      [] OTHER -> TRUE

RECURSIVE Marshal(_)
\* json.Marshal of one value: the JSON text, as a tagged JSON value
Marshal(v) ==
    CASE v[1] = "string" -> <<"jstring", v[2]>>
      [] v[1] \in {"int64", "float64"} -> <<"jnumber", v[2]>>
      [] v[1] = "[]string" -> <<"jarray", [i \in 1..Len(v[2]) |-> <<"jstring", v[2][i]>>]>>
      [] v[1] = "[]interface{}" -> <<"jarray", [i \in 1..Len(v[2]) |-> Marshal(v[2][i])]>>
      [] v[1] = "map[string]interface{}" -> <<"jobject", [k \in DOMAIN v[2] |-> Marshal(v[2][k])]>>

RECURSIVE Unmarshal(_)
\* json.Unmarshal into interface{}: numbers become float64, arrays
\* []interface{}, objects map[string]interface{}
Unmarshal(j) ==
    CASE j[1] = "jstring" -> Str(j[2])
      [] j[1] = "jnumber" -> F64(j[2])
      [] j[1] = "jarray" -> AnySlice([i \in 1..Len(j[2]) |-> Unmarshal(j[2][i])])
      [] j[1] = "jobject" -> MapVal([k \in DOMAIN j[2] |-> Unmarshal(j[2][k])])

\* jwt.MapClaims <-> the JSON object of the payload segment
MarshalClaims(mc) == [k \in DOMAIN mc |-> Marshal(mc[k])]
UnmarshalClaims(obj) == [k \in DOMAIN obj |-> Unmarshal(obj[k])]
MarshalableClaims(mc) == \A k \in DOMAIN mc : Marshalable(mc[k])

\* m[k] = v on a map
Put(m, k, v) == [x \in (DOMAIN m) \cup {k} |-> IF x = k THEN v ELSE m[x]]
PutIf(c, m, k, v) == IF c THEN Put(m, k, v) ELSE m

\* ------------------------------------------------------------ claims codec
\* claimsParser.getCustomClaims: the keys that are not copied to custom
protectedKeys == {"user_id", "token_type", "client_id", "device_id", "session_id",
                  "scopes", "metadata", "iss", "aud", "sub", "exp", "iat", "nbf"}

getStringClaim(claims, key) ==
    IF key \in DOMAIN claims /\ claims[key][1] = "string" THEN claims[key][2] ELSE ""

\* a decoder that accepts only integer-typed numbers
getInt64Claim_IntOnly(claims, key) ==
    IF key \in DOMAIN claims /\ claims[key][1] \in {"int64", "int"}
    THEN claims[key][2] ELSE 0

getInt64Claim(claims, key) ==
    IF key \in DOMAIN claims /\ claims[key][1] \in {"float64", "int64", "int"}
    THEN claims[key][2] ELSE 0

getStringArrayClaim_StringSlice(claims, key) ==
    IF key \in DOMAIN claims /\ claims[key][1] = "[]string"
    THEN [i \in 1..Len(claims[key][2]) |-> Str(claims[key][2][i])]
    ELSE <<>>

\* keeps the string elements of a []interface{}, in order
getStringArrayClaim(claims, key) ==
    IF key \in DOMAIN claims /\ claims[key][1] = "[]interface{}"
    THEN LET arr == claims[key][2]
         IN  SelectSeq([i \in 1..Len(arr) |-> arr[i]], LAMBDA x : x[1] = "string")
    ELSE <<>>

getMapClaim(claims, key) ==
    IF key \in DOMAIN claims /\ claims[key][1] = "map[string]interface{}"
    THEN GoMap(claims[key][2]) ELSE NilMap

getCustomClaims(claims) ==
    GoMap([k \in (DOMAIN claims) \ protectedKeys |-> claims[k]])

StringsOf(arr) == [i \in 1..Len(arr) |-> arr[i][2]]

NoClaims == [present |-> FALSE]

\* claimsParser.ExtractClaims: fails only when user_id is absent or not a string
ExtractClaims(claims) ==
    IF ~("user_id" \in DOMAIN claims /\ claims["user_id"][1] = "string")
    THEN [err |-> {"ErrInvalidClaims"}, claims |-> NoClaims]
    ELSE [err |-> {},
          claims |-> [present |-> TRUE,
                      UserID |-> claims["user_id"][2],
                      TokenType |-> getStringClaim(claims, "token_type"),
                      ClientID |-> getStringClaim(claims, "client_id"),
                      DeviceID |-> getStringClaim(claims, "device_id"),
                      SessionID |-> getStringClaim(claims, "session_id"),
                      Issuer |-> getStringClaim(claims, "iss"),
                      Audience |-> getStringClaim(claims, "aud"),
                      Subject |-> getStringClaim(claims, "sub"),
                      ExpiresAt |-> getInt64Claim(claims, "exp"),
                      IssuedAt |-> getInt64Claim(claims, "iat"),
                      NotBefore |-> getInt64Claim(claims, "nbf"),
                      Scopes |-> StringsOf(getStringArrayClaim(claims, "scopes")),
                      Metadata |-> getMapClaim(claims, "metadata"),
                      Custom |-> getCustomClaims(claims)]]

\* ------------------------------------------------------------ token string
\* The compact serialization header.payload.signature.  A segment is kept
\* as what it decodes to; json = FALSE is a segment that is not base64url
\* of a JSON object.  The signature segment is the MAC it decodes to
\* (flip # 0: other bytes) and pad, the bits of its last character that
\* carry no data: base64.RawURLEncoding is not strict and ignores them.
HS256Bytes == 32
SigPadBits == 6 - ((HS256Bytes * 8) % 6)
PadValues == 0..(2 ^ SigPadBits - 1)

Header(alg) == [json |-> TRUE, alg |-> alg, typ |-> "JWT"]
Payload(obj) == [json |-> TRUE, obj |-> obj]

\* HMAC over the signing input (the first two segments) under key
HMAC(alg, key, hdr, pay) == <<alg, key, hdr, pay>>

\* token.SignedString(key) of a token made by jwt.New(method) with claims mc
SignedString(alg, mc, key) ==
    LET hdr == Header(alg)
        pay == Payload(MarshalClaims(mc))
    IN  [parts |-> 3, hdr |-> hdr, pay |-> pay,
         sig |-> [mac |-> HMAC(alg, key, hdr, pay), flip |-> 0, pad |-> 0]]

NoToken == [parts |-> 0]

\* ------------------------------------------------------------------ options
\* A TokenOption / RefreshOption is a closure over *TokenConfig; Fail is a
\* caller-written option that returns an error.
WithAudience(a) == [op |-> "WithAudience", seq |-> a, s |-> "", t |-> 0]
WithScope(sc) == [op |-> "WithScope", seq |-> sc, s |-> "", t |-> 0]
WithSubject(s) == [op |-> "WithSubject", seq |-> <<>>, s |-> s, t |-> 0]
WithExpiresAt(t) == [op |-> "WithExpiresAt", seq |-> <<>>, s |-> "", t |-> t]
WithIssuedAt(t) == [op |-> "WithIssuedAt", seq |-> <<>>, s |-> "", t |-> t]
FailOption(e) == [op |-> "Fail", seq |-> <<>>, s |-> e, t |-> 0]

\* an option list in which WithIssuedAt has no effect
ApplyTokenOption_NoIssuedAt(tc, o) ==
    CASE o.op = "WithAudience" -> [tc EXCEPT !.Audience = o.seq]
      [] o.op = "WithScope" -> [tc EXCEPT !.Scope = o.seq]
      [] o.op = "WithSubject" -> [tc EXCEPT !.Subject = o.s]
      [] o.op = "WithExpiresAt" -> [tc EXCEPT !.ExpiresAt = o.t]
      [] OTHER -> tc

ApplyTokenOption(tc, o) ==
    CASE o.op = "WithAudience" -> [tc EXCEPT !.Audience = o.seq]
      [] o.op = "WithScope" -> [tc EXCEPT !.Scope = o.seq]
      [] o.op = "WithSubject" -> [tc EXCEPT !.Subject = o.s]
      [] o.op = "WithExpiresAt" -> [tc EXCEPT !.ExpiresAt = o.t]
      [] o.op = "WithIssuedAt" -> [tc EXCEPT !.IssuedAt = o.t]
      [] OTHER -> tc

RECURSIVE ApplyTokenOptions_SkipFailing(_, _)
\* goes on after an option that fails
ApplyTokenOptions_SkipFailing(tc, opts) ==
    IF opts = <<>> THEN [err |-> {}, tc |-> tc]
    ELSE ApplyTokenOptions_SkipFailing(ApplyTokenOption(tc, Head(opts)), Tail(opts))

RECURSIVE ApplyTokenOptions(_, _)
\* for _, opt := range opts { if err := opt(config); err != nil { return nil, err } }
ApplyTokenOptions(tc, opts) ==
    IF opts = <<>> THEN [err |-> {}, tc |-> tc]
    ELSE IF Head(opts).op = "Fail" THEN [err |-> {Head(opts).s}, tc |-> tc]
    ELSE ApplyTokenOptions(ApplyTokenOption(tc, Head(opts)), Tail(opts))

\* token pair options
WithRefreshToken == [op |-> "WithRefreshToken", opts |-> <<>>, s |-> ""]
WithAccessTokenOptions(opts) == [op |-> "WithAccessTokenOptions", opts |-> opts, s |-> ""]
WithRefreshTokenOptions(opts) == [op |-> "WithRefreshTokenOptions", opts |-> opts, s |-> ""]
FailPairOption(e) == [op |-> "Fail", opts |-> <<>>, s |-> e]

\* pairConfig := &TokenPairConfig{IncludeRefresh: false}
TokenPairConfig0 ==
    [IncludeRefresh |-> FALSE, AccessTokenOptions |-> <<>>, RefreshTokenOptions |-> <<>>]

ApplyPairOption(pc, o) ==
    CASE o.op = "WithRefreshToken" -> [pc EXCEPT !.IncludeRefresh = TRUE]
      [] o.op = "WithAccessTokenOptions" -> [pc EXCEPT !.AccessTokenOptions = o.opts]
      [] o.op = "WithRefreshTokenOptions" -> [pc EXCEPT !.RefreshTokenOptions = o.opts]
      [] OTHER -> pc

RECURSIVE ApplyPairOptions(_, _)
ApplyPairOptions(pc, opts) ==
    IF opts = <<>> THEN [err |-> {}, pc |-> pc]
    ELSE IF Head(opts).op = "Fail" THEN [err |-> {Head(opts).s}, pc |-> pc]
    ELSE ApplyPairOptions(ApplyPairOption(pc, Head(opts)), Tail(opts))

SkipExpiration == [op |-> "SkipExpiration", seq |-> <<>>, s |-> ""]
SkipValidation == [op |-> "SkipValidation", seq |-> <<>>, s |-> ""]
WithRequiredScopes(sc) == [op |-> "WithRequiredScopes", seq |-> sc, s |-> ""]
WithRequiredIssuer(i) == [op |-> "WithRequiredIssuer", seq |-> <<>>, s |-> i]
WithRequiredAudience(a) == [op |-> "WithRequiredAudience", seq |-> <<>>, s |-> a]
FailValidationOption(e) == [op |-> "Fail", seq |-> <<>>, s |-> e]

\* config := &ValidationConfig{}
ValidationConfig0 ==
    [SkipExpiration |-> FALSE, SkipValidation |-> FALSE, RequiredScopes |-> <<>>,
     RequiredIssuer |-> "", RequiredAudience |-> ""]

ApplyValidationOption(vc, o) ==
    CASE o.op = "SkipExpiration" -> [vc EXCEPT !.SkipExpiration = TRUE]
      [] o.op = "SkipValidation" -> [vc EXCEPT !.SkipValidation = TRUE]
      [] o.op = "WithRequiredScopes" -> [vc EXCEPT !.RequiredScopes = o.seq]
      [] o.op = "WithRequiredIssuer" -> [vc EXCEPT !.RequiredIssuer = o.s]
      [] o.op = "WithRequiredAudience" -> [vc EXCEPT !.RequiredAudience = o.s]
      [] OTHER -> vc

RECURSIVE ApplyValidationOptions(_, _)
ApplyValidationOptions(vc, opts) ==
    IF opts = <<>> THEN [err |-> {}, vc |-> vc]
    ELSE IF Head(opts).op = "Fail" THEN [err |-> {Head(opts).s}, vc |-> vc]
    ELSE ApplyValidationOptions(ApplyValidationOption(vc, Head(opts)), Tail(opts))

\* ------------------------------------------------------------------- issuer
NoSigned == [present |-> FALSE]

\* the service default audience first
generateSignedToken_DefaultFirst(claims, config) ==
    LET c0 == [k \in {"user_id", "token_type", "exp", "iat", "nbf"} |->
                 CASE k = "user_id" -> Str(claims.UserID)
                   [] k = "token_type" -> Str(config.TokenKind)
                   [] k = "exp" -> I64(Unix(config.ExpiresAt))
                   [] k = "iat" -> I64(Unix(config.IssuedAt))
                   [] k = "nbf" -> I64(Unix(config.IssuedAt))]
        c1 == PutIf(claims.ClientID # "", c0, "client_id", Str(claims.ClientID))
        c2 == PutIf(claims.DeviceID # "", c1, "device_id", Str(claims.DeviceID))
        c3 == PutIf(claims.SessionID # "", c2, "session_id", Str(claims.SessionID))
        c4 == PutIf(Len(claims.Scopes) > 0, c3, "scopes", StrSlice(claims.Scopes))
        c5 == PutIf(~claims.Metadata.isNil, c4, "metadata", MapVal(claims.Metadata.kv))
        c6 == IF claims.Issuer # "" THEN Put(c5, "iss", Str(claims.Issuer))
              ELSE IF cfg.Issuer # "" THEN Put(c5, "iss", Str(cfg.Issuer))
              ELSE c5
        c7 == IF cfg.Audience # "" THEN Put(c6, "aud", Str(cfg.Audience))
              ELSE IF claims.Audience # "" THEN Put(c6, "aud", Str(claims.Audience))
              ELSE IF Len(config.Audience) > 0 THEN Put(c6, "aud", StrSlice(config.Audience))
              ELSE c6
        c8 == PutIf(Len(config.Scope) > 0, c7, "scope", StrSlice(config.Scope))
        c9 == IF config.Subject # "" THEN Put(c8, "sub", Str(config.Subject))
              ELSE IF claims.Subject # "" THEN Put(c8, "sub", Str(claims.Subject))
              ELSE Put(c8, "sub", Str(claims.UserID))
        \* for key, value := range claims.Custom { tokenClaims[key] = value }
        tokenClaims == [k \in (DOMAIN c9) \cup (DOMAIN claims.Custom.kv) |->
                          IF k \in DOMAIN claims.Custom.kv THEN claims.Custom.kv[k] ELSE c9[k]]
    IN  IF ~MarshalableClaims(tokenClaims)
        THEN [err |-> {"json.UnsupportedTypeError"}, signed |-> NoSigned]
        ELSE [err |-> {},
              signed |-> [present |-> TRUE,
                          Token |-> SignedString("HS256", tokenClaims, cfg.Secret),
                          ExpiresAt |-> config.ExpiresAt,
                          IssuedAt |-> config.IssuedAt,
                          TokenType |-> "Bearer",
                          ExpiresIn |-> TruncSeconds(config.ExpiresAt - config.IssuedAt),
                          tokenKind |-> config.TokenKind,
                          scope |-> config.Scope]]

\* an encoder whose own keys win over colliding custom keys
generateSignedToken_ProtectedWins(claims, config) ==
    LET c0 == [k \in {"user_id", "token_type", "exp", "iat", "nbf"} |->
                 CASE k = "user_id" -> Str(claims.UserID)
                   [] k = "token_type" -> Str(config.TokenKind)
                   [] k = "exp" -> I64(Unix(config.ExpiresAt))
                   [] k = "iat" -> I64(Unix(config.IssuedAt))
                   [] k = "nbf" -> I64(Unix(config.IssuedAt))]
        c1 == PutIf(claims.ClientID # "", c0, "client_id", Str(claims.ClientID))
        c2 == PutIf(claims.DeviceID # "", c1, "device_id", Str(claims.DeviceID))
        c3 == PutIf(claims.SessionID # "", c2, "session_id", Str(claims.SessionID))
        c4 == PutIf(Len(claims.Scopes) > 0, c3, "scopes", StrSlice(claims.Scopes))
        c5 == PutIf(~claims.Metadata.isNil, c4, "metadata", MapVal(claims.Metadata.kv))
        c6 == IF claims.Issuer # "" THEN Put(c5, "iss", Str(claims.Issuer))
              ELSE IF cfg.Issuer # "" THEN Put(c5, "iss", Str(cfg.Issuer))
              ELSE c5
        c7 == IF Len(config.Audience) > 0 THEN Put(c6, "aud", StrSlice(config.Audience))
              ELSE IF claims.Audience # "" THEN Put(c6, "aud", Str(claims.Audience))
              ELSE IF cfg.Audience # "" THEN Put(c6, "aud", Str(cfg.Audience))
              ELSE c6
        c8 == PutIf(Len(config.Scope) > 0, c7, "scope", StrSlice(config.Scope))
        c9 == IF config.Subject # "" THEN Put(c8, "sub", Str(config.Subject))
              ELSE IF claims.Subject # "" THEN Put(c8, "sub", Str(claims.Subject))
              ELSE Put(c8, "sub", Str(claims.UserID))
        tokenClaims == [k \in (DOMAIN c9) \cup (DOMAIN claims.Custom.kv) |->
                          IF k \in DOMAIN c9 THEN c9[k] ELSE claims.Custom.kv[k]]
    IN  IF ~MarshalableClaims(tokenClaims)
        THEN [err |-> {"json.UnsupportedTypeError"}, signed |-> NoSigned]
        ELSE [err |-> {},
              signed |-> [present |-> TRUE,
                          Token |-> SignedString("HS256", tokenClaims, cfg.Secret),
                          ExpiresAt |-> config.ExpiresAt,
                          IssuedAt |-> config.IssuedAt,
                          TokenType |-> "Bearer",
                          ExpiresIn |-> TruncSeconds(config.ExpiresAt - config.IssuedAt),
                          tokenKind |-> config.TokenKind,
                          scope |-> config.Scope]]

\* tokenGenerator.generateSignedToken
generateSignedToken(claims, config) ==
    LET c0 == [k \in {"user_id", "token_type", "exp", "iat", "nbf"} |->
                 CASE k = "user_id" -> Str(claims.UserID)
                   [] k = "token_type" -> Str(config.TokenKind)
                   [] k = "exp" -> I64(Unix(config.ExpiresAt))
                   [] k = "iat" -> I64(Unix(config.IssuedAt))
                   [] k = "nbf" -> I64(Unix(config.IssuedAt))]
        c1 == PutIf(claims.ClientID # "", c0, "client_id", Str(claims.ClientID))
        c2 == PutIf(claims.DeviceID # "", c1, "device_id", Str(claims.DeviceID))
        c3 == PutIf(claims.SessionID # "", c2, "session_id", Str(claims.SessionID))
        c4 == PutIf(Len(claims.Scopes) > 0, c3, "scopes", StrSlice(claims.Scopes))
        c5 == PutIf(~claims.Metadata.isNil, c4, "metadata", MapVal(claims.Metadata.kv))
        c6 == IF claims.Issuer # "" THEN Put(c5, "iss", Str(claims.Issuer))
              ELSE IF cfg.Issuer # "" THEN Put(c5, "iss", Str(cfg.Issuer))
              ELSE c5
        c7 == IF Len(config.Audience) > 0 THEN Put(c6, "aud", StrSlice(config.Audience))
              ELSE IF claims.Audience # "" THEN Put(c6, "aud", Str(claims.Audience))
              ELSE IF cfg.Audience # "" THEN Put(c6, "aud", Str(cfg.Audience))
              ELSE c6
        c8 == PutIf(Len(config.Scope) > 0, c7, "scope", StrSlice(config.Scope))
        c9 == IF config.Subject # "" THEN Put(c8, "sub", Str(config.Subject))
              ELSE IF claims.Subject # "" THEN Put(c8, "sub", Str(claims.Subject))
              ELSE Put(c8, "sub", Str(claims.UserID))
        \* for key, value := range claims.Custom { tokenClaims[key] = value }
        tokenClaims == [k \in (DOMAIN c9) \cup (DOMAIN claims.Custom.kv) |->
                          IF k \in DOMAIN claims.Custom.kv THEN claims.Custom.kv[k] ELSE c9[k]]
    IN  IF ~MarshalableClaims(tokenClaims)
        THEN [err |-> {"json.UnsupportedTypeError"}, signed |-> NoSigned]
        ELSE [err |-> {},
              signed |-> [present |-> TRUE,
                          Token |-> SignedString("HS256", tokenClaims, cfg.Secret),
                          ExpiresAt |-> config.ExpiresAt,
                          IssuedAt |-> config.IssuedAt,
                          TokenType |-> "Bearer",
                          ExpiresIn |-> TruncSeconds(config.ExpiresAt - config.IssuedAt),
                          tokenKind |-> config.TokenKind,
                          scope |-> config.Scope]]

\* SignedToken methods
IsAccessToken(st) == st.tokenKind = "access"
IsRefreshToken(st) == st.tokenKind = "refresh"
\* fmt.Sprintf("%s %s", st.TokenType, st.Token)
AuthHeader(st) == <<st.TokenType, " ", st.Token>>

\* the kind is taken from the caller's Claims
GenerateAccessToken_ClaimsKind(claims, opts, t1, t2) ==
    LET config == [TokenKind |-> claims.TokenType, IssuedAt |-> t1,
                   ExpiresAt |-> t2 + cfg.AccessTokenTTL,
                   Audience |-> <<>>, Scope |-> <<>>, Subject |-> ""]
        applied == ApplyTokenOptions(config, opts)
    IN  IF applied.err # {} THEN [err |-> applied.err, signed |-> NoSigned]
        ELSE generateSignedToken(claims, applied.tc)

\* tokenGenerator.GenerateAccessToken; t1 and t2 are its two reads of the clock
GenerateAccessToken(claims, opts, t1, t2) ==
    LET config == [TokenKind |-> "access", IssuedAt |-> t1,
                   ExpiresAt |-> t2 + cfg.AccessTokenTTL,
                   Audience |-> <<>>, Scope |-> <<>>, Subject |-> ""]
        applied == ApplyTokenOptions(config, opts)
    IN  IF applied.err # {} THEN [err |-> applied.err, signed |-> NoSigned]
        ELSE generateSignedToken(claims, applied.tc)

\* tokenGenerator.GenerateRefreshToken
GenerateRefreshToken(claims, opts, t1, t2) ==
    LET config == [TokenKind |-> "refresh", IssuedAt |-> t1,
                   ExpiresAt |-> t2 + cfg.RefreshTokenTTL,
                   Audience |-> <<>>, Scope |-> <<>>, Subject |-> ""]
        applied == ApplyTokenOptions(config, opts)
    IN  IF applied.err # {} THEN [err |-> applied.err, signed |-> NoSigned]
        ELSE generateSignedToken(claims, applied.tc)

NoPair == [present |-> FALSE]

\* the refresh token is issued with the access token's options
GenerateTokenPair_SharedOptions(claims, opts, t1, t2, t3, t4) ==
    LET applied == ApplyPairOptions(TokenPairConfig0, opts)
        pairConfig == applied.pc
        access == GenerateAccessToken(claims, pairConfig.AccessTokenOptions, t1, t2)
        refresh == GenerateRefreshToken(claims, pairConfig.AccessTokenOptions, t3, t4)
    IN  IF applied.err # {} THEN [err |-> applied.err, pair |-> NoPair]
        ELSE IF access.err # {} THEN [err |-> access.err, pair |-> NoPair]
        ELSE IF ~pairConfig.IncludeRefresh
        THEN [err |-> {}, pair |-> [present |-> TRUE, AccessToken |-> access.signed,
                                    RefreshToken |-> NoSigned]]
        ELSE IF refresh.err # {} THEN [err |-> refresh.err, pair |-> NoPair]
        ELSE [err |-> {}, pair |-> [present |-> TRUE, AccessToken |-> access.signed,
                                    RefreshToken |-> refresh.signed]]

\* tokenGenerator.GenerateTokenPair; t1, t2 are the clock reads of the access
\* token's issuance, t3, t4 those of the refresh token's
GenerateTokenPair(claims, opts, t1, t2, t3, t4) ==
    LET applied == ApplyPairOptions(TokenPairConfig0, opts)
        pairConfig == applied.pc
        access == GenerateAccessToken(claims, pairConfig.AccessTokenOptions, t1, t2)
        refresh == GenerateRefreshToken(claims, pairConfig.RefreshTokenOptions, t3, t4)
    IN  IF applied.err # {} THEN [err |-> applied.err, pair |-> NoPair]
        ELSE IF access.err # {} THEN [err |-> access.err, pair |-> NoPair]
        ELSE IF ~pairConfig.IncludeRefresh
        THEN [err |-> {}, pair |-> [present |-> TRUE, AccessToken |-> access.signed,
                                    RefreshToken |-> NoSigned]]
        ELSE IF refresh.err # {} THEN [err |-> refresh.err, pair |-> NoPair]
        ELSE [err |-> {}, pair |-> [present |-> TRUE, AccessToken |-> access.signed,
                                    RefreshToken |-> refresh.signed]]

\* ---------------------------------------------------- jwt.Parse (golang-jwt)
RegisteredAlgs == {"HS256", "HS384", "HS512", "RS256", "ES256", "none"}
HMACAlgs == {"HS256", "HS384", "HS512"}

\* SigningMethodHMAC.Verify: the decoded signature bytes equal the MAC of the
\* signing input under key; the pad bits are lost in decoding
VerifyAnyKey(tokenString, key) ==
    /\ tokenString.sig.flip = 0
    /\ tokenString.sig.mac[1] = tokenString.hdr.alg
    /\ tokenString.sig.mac[3] = tokenString.hdr
    /\ tokenString.sig.mac[4] = tokenString.pay

Verify(tokenString, key) ==
    /\ tokenString.sig.flip = 0
    /\ tokenString.sig.mac = HMAC(tokenString.hdr.alg, key, tokenString.hdr, tokenString.pay)

\* MapClaims.parseNumericDate: absent, or a float64 other than 0, or an error
NumericDate(mc, key) ==
    IF key \notin DOMAIN mc THEN [err |-> {}, present |-> FALSE, sec |-> 0]
    ELSE IF mc[key][1] = "float64"
         THEN [err |-> {}, present |-> mc[key][2] # 0, sec |-> mc[key][2]]
         ELSE [err |-> {"jwt.ErrInvalidType"}, present |-> FALSE, sec |-> 0]

\* Validator.Validate with the default parser options: exp and nbf only
ValidatorValidate(mc, t) ==
    LET exp == NumericDate(mc, "exp")
        nbf == NumericDate(mc, "nbf")
        e1 == IF exp.err # {} THEN exp.err
              ELSE IF exp.present /\ ~(t < TimeUnix(exp.sec)) THEN {"jwt.ErrTokenExpired"}
              ELSE {}
        e2 == IF nbf.err # {} THEN nbf.err
              ELSE IF nbf.present /\ t < TimeUnix(nbf.sec) THEN {"jwt.ErrTokenNotValidYet"}
              ELSE {}
    IN  e1 \cup e2

\* a keyFunc that returns the secret for every signing method
jwtParse_AnyMethod(tokenString, t) ==
    IF tokenString.parts # 3 \/ ~tokenString.hdr.json \/ ~tokenString.pay.json
    THEN [err |-> {"jwt.ErrTokenMalformed"}, claims |-> EmptyKV]
    ELSE IF tokenString.hdr.alg \notin RegisteredAlgs
    THEN [err |-> {"jwt.ErrTokenUnverifiable"}, claims |-> EmptyKV]
    ELSE IF ~Verify(tokenString, cfg.Secret)
    THEN [err |-> {"jwt.ErrTokenSignatureInvalid"}, claims |-> EmptyKV]
    ELSE LET mc == UnmarshalClaims(tokenString.pay.obj)
             ve == ValidatorValidate(mc, t)
         IN  IF ve # {} THEN [err |-> {"jwt.ErrTokenInvalidClaims"} \cup ve, claims |-> EmptyKV]
             ELSE [err |-> {}, claims |-> mc]

\* jwt.Parse(tokenString, keyFunc) with the keyFunc of tokenValidator.ValidateToken:
\* only HMAC methods get the configured secret.  t is the validator's clock read.
jwtParse(tokenString, t) ==
    IF tokenString.parts # 3 \/ ~tokenString.hdr.json \/ ~tokenString.pay.json
    THEN [err |-> {"jwt.ErrTokenMalformed"}, claims |-> EmptyKV]
    ELSE IF tokenString.hdr.alg \notin RegisteredAlgs
    THEN [err |-> {"jwt.ErrTokenUnverifiable"}, claims |-> EmptyKV]
    ELSE IF tokenString.hdr.alg \notin HMACAlgs
    THEN [err |-> {"jwt.ErrTokenUnverifiable", "ErrInvalidSignature"}, claims |-> EmptyKV]
    ELSE IF ~Verify(tokenString, cfg.Secret)
    THEN [err |-> {"jwt.ErrTokenSignatureInvalid"}, claims |-> EmptyKV]
    ELSE LET mc == UnmarshalClaims(tokenString.pay.obj)
             ve == ValidatorValidate(mc, t)
         IN  IF ve # {} THEN [err |-> {"jwt.ErrTokenInvalidClaims"} \cup ve, claims |-> EmptyKV]
             ELSE [err |-> {}, claims |-> mc]

\* ---------------------------------------------------------------- validator
hasRequiredScopes_First(tokenScopes, requiredScopes) ==
    Len(tokenScopes) >= Len(requiredScopes)
    /\ \A i \in 1..Len(requiredScopes) : tokenScopes[i] = requiredScopes[i]

\* tokenValidator.hasRequiredScopes
hasRequiredScopes(tokenScopes, requiredScopes) ==
    LET scopeMap == {tokenScopes[i] : i \in 1..Len(tokenScopes)}
    IN  \A i \in 1..Len(requiredScopes) : requiredScopes[i] \in scopeMap

\* the issuer, audience and scope gates before the expiration gate
ValidateClaims_IssuerFirst(claims, config, t2, t3) ==
    IF config.RequiredIssuer # "" /\ claims.Issuer # config.RequiredIssuer
    THEN {"ErrInvalidToken"}
    ELSE IF config.RequiredAudience # "" /\ claims.Audience # config.RequiredAudience
    THEN {"ErrInvalidToken"}
    ELSE IF Len(config.RequiredScopes) > 0
            /\ ~hasRequiredScopes(claims.Scopes, config.RequiredScopes)
    THEN {"ErrInvalidToken"}
    ELSE IF ~config.SkipExpiration /\ claims.ExpiresAt > 0 /\ Unix(t2) > claims.ExpiresAt
    THEN {"ErrTokenExpired"}
    ELSE IF claims.NotBefore > 0 /\ Unix(t3) < claims.NotBefore
    THEN {"ErrInvalidToken"}
    ELSE {}

\* tokenValidator.ValidateClaims; t2 and t3 are its two reads of the clock
ValidateClaims(claims, config, t2, t3) ==
    IF ~config.SkipExpiration /\ claims.ExpiresAt > 0 /\ Unix(t2) > claims.ExpiresAt
    THEN {"ErrTokenExpired"}
    ELSE IF claims.NotBefore > 0 /\ Unix(t3) < claims.NotBefore
    THEN {"ErrInvalidToken"}
    ELSE IF config.RequiredIssuer # "" /\ claims.Issuer # config.RequiredIssuer
    THEN {"ErrInvalidToken"}
    ELSE IF config.RequiredAudience # "" /\ claims.Audience # config.RequiredAudience
    THEN {"ErrInvalidToken"}
    ELSE IF Len(config.RequiredScopes) > 0
            /\ ~hasRequiredScopes(claims.Scopes, config.RequiredScopes)
    THEN {"ErrInvalidToken"}
    ELSE {}

NoValidated(e) == [err |-> e, Claims |-> NoClaims, IsValid |-> FALSE, ExpiresAt |-> ZeroTime]

\* tokenValidator.ValidateToken; t1 is the clock read of jwt.Parse
ValidateToken(tokenString, opts, t1, t2, t3) ==
    LET applied == ApplyValidationOptions(ValidationConfig0, opts)
        config == applied.vc
        parsed == jwtParse(tokenString, t1)
        ex == ExtractClaims(parsed.claims)
        parsedClaims == ex.claims
        ve == IF config.SkipValidation THEN {}
              ELSE ValidateClaims(parsedClaims, config, t2, t3)
    IN  IF applied.err # {} THEN NoValidated(applied.err)
        ELSE IF parsed.err # {} THEN NoValidated(parsed.err)
        ELSE IF ex.err # {} THEN NoValidated(ex.err)
        ELSE IF ve # {} THEN NoValidated(ve)
        ELSE [err |-> {}, Claims |-> parsedClaims, IsValid |-> TRUE,
              ExpiresAt |-> IF parsedClaims.ExpiresAt > 0
                            THEN At(TimeUnix(parsedClaims.ExpiresAt)) ELSE ZeroTime]

\* ValidateToken gets as far as ValidateClaims, where the clock is read again
ReachesValidateClaims(tokenString, opts, t1) ==
    LET applied == ApplyValidationOptions(ValidationConfig0, opts)
        parsed == jwtParse(tokenString, t1)
    IN  /\ applied.err = {}
        /\ parsed.err = {}
        /\ ExtractClaims(parsed.claims).err = {}
        /\ ~applied.vc.SkipValidation

\* ---------------------------------------------------------------- refresher
RefreshClaims(v) ==
    [UserID |-> v.UserID, TokenType |-> "access",
     ClientID |-> v.ClientID, DeviceID |-> v.DeviceID,
     SessionID |-> v.SessionID, Scopes |-> v.Scopes,
     Metadata |-> v.Metadata, Issuer |-> v.Issuer,
     Audience |-> v.Audience, Subject |-> v.Subject,
     ExpiresAt |-> 0, IssuedAt |-> 0, NotBefore |-> 0,
     Custom |-> v.Custom]

\* a refresher that accepts a refresh token once per second of the clock:
\* a second call in the second of the newest access token is refused
RefreshAccessToken_OncePerSecond(refreshToken, opts, t1, t2, t3, t4, t5) ==
    LET validated == ValidateToken(refreshToken, <<>>, t1, t2, t3)
    IN  IF validated.err # {} THEN [err |-> validated.err, signed |-> NoSigned]
        ELSE IF validated.Claims.TokenType # "refresh"
        THEN [err |-> {"ErrInvalidToken"}, signed |-> NoSigned]
        ELSE IF parent # NoToken /\ getInt64Claim(UnmarshalClaims(parent.pay.obj), "iat") = Unix(t4)
        THEN [err |-> {"ErrInvalidToken"}, signed |-> NoSigned]
        ELSE GenerateAccessToken(RefreshClaims(validated.Claims), opts, t4, t5)

RefreshAccessToken_NoKindCheck(refreshToken, opts, t1, t2, t3, t4, t5) ==
    LET validated == ValidateToken(refreshToken, <<>>, t1, t2, t3)
    IN  IF validated.err # {} THEN [err |-> validated.err, signed |-> NoSigned]
        ELSE GenerateAccessToken(RefreshClaims(validated.Claims), opts, t4, t5)

RefreshAccessToken_SameKind(refreshToken, opts, t1, t2, t3, t4, t5) ==
    LET validated == ValidateToken(refreshToken, <<>>, t1, t2, t3)
    IN  IF validated.err # {} THEN [err |-> validated.err, signed |-> NoSigned]
        ELSE IF validated.Claims.TokenType # "refresh"
        THEN [err |-> {"ErrInvalidToken"}, signed |-> NoSigned]
        ELSE GenerateRefreshToken(RefreshClaims(validated.Claims), opts, t4, t5)

\* the input is decoded without being verified
RefreshAccessToken_NoVerify(refreshToken, opts, t1, t2, t3, t4, t5) ==
    LET ex == ExtractClaims(UnmarshalClaims(refreshToken.pay.obj))
    IN  IF ex.err # {} THEN [err |-> ex.err, signed |-> NoSigned]
        ELSE IF ex.claims.TokenType # "refresh"
        THEN [err |-> {"ErrInvalidToken"}, signed |-> NoSigned]
        ELSE GenerateAccessToken(RefreshClaims(ex.claims), opts, t4, t5)

\* tokenRefresher.RefreshAccessToken: t1..t3 are the clock reads of the
\* validation, t4 and t5 those of GenerateAccessToken
RefreshAccessToken(refreshToken, opts, t1, t2, t3, t4, t5) ==
    LET validated == ValidateToken(refreshToken, <<>>, t1, t2, t3)
        v == validated.Claims
        claims == RefreshClaims(v)
    IN  IF validated.err # {} THEN [err |-> validated.err, signed |-> NoSigned]
        ELSE IF ~validated.IsValid THEN [err |-> {"ErrInvalidToken"}, signed |-> NoSigned]
        ELSE IF v.TokenType # "refresh" THEN [err |-> {"ErrInvalidToken"}, signed |-> NoSigned]
        ELSE GenerateAccessToken(claims, opts, t4, t5)

\* ------------------------------------------------------------------- inputs
ScopeNames == {"read", "write"}
ScopeSeqs == UNION {[1..n -> ScopeNames] : n \in 0..MaxScopes}

\* service configurations (fixed at construction); TTLs in ticks
Configs ==
    {[Secret |-> "k1", AccessTokenTTL |-> 1 * TicksPerSec, RefreshTokenTTL |-> 2 * TicksPerSec,
      Issuer |-> "", Audience |-> ""],
     [Secret |-> "k1", AccessTokenTTL |-> 1 * TicksPerSec, RefreshTokenTTL |-> 2 * TicksPerSec,
      Issuer |-> "iss0", Audience |-> "aud0"],
     [Secret |-> "k1", AccessTokenTTL |-> -1 * TicksPerSec, RefreshTokenTTL |-> 2 * TicksPerSec,
      Issuer |-> "", Audience |-> ""]}

BaseClaims ==
    [UserID |-> "u1", TokenType |-> "access", ClientID |-> "", DeviceID |-> "",
     SessionID |-> "", Scopes |-> <<>>, Metadata |-> NilMap, Issuer |-> "",
     Audience |-> "", Subject |-> "", ExpiresAt |-> 0, IssuedAt |-> 0, NotBefore |-> 0,
     Custom |-> NilMap]

FullClaims ==
    [UserID |-> "u2", TokenType |-> "refresh", ClientID |-> "c1", DeviceID |-> "d1",
     SessionID |-> "s1", Scopes |-> <<"write", "read">>,
     Metadata |-> GoMap("role" :> Str("admin")), Issuer |-> "issC",
     Audience |-> "audC", Subject |-> "subC", ExpiresAt |-> 0, IssuedAt |-> 0,
     NotBefore |-> 0, Custom |-> GoMap("custom_field" :> Str("custom_value"))]

\* <<claims, options>> of an issuance call
IssueInputs ==
    {<<BaseClaims, <<>>>>,
     <<FullClaims, <<>>>>,
     <<[BaseClaims EXCEPT !.UserID = ""], <<>>>>,
     <<[BaseClaims EXCEPT !.Metadata = GoMap("n" :> I64(1)), !.Custom = GoMap("n" :> I64(7))], <<>>>>,
     <<[BaseClaims EXCEPT !.Metadata = GoMap("c" :> Chan)], <<>>>>,
     <<[BaseClaims EXCEPT !.Custom = GoMap("token_type" :> Str("refresh") @@ "user_id" :> Str("u2"))], <<>>>>,
     <<FullClaims, <<WithAudience(<<"audO">>), WithScope(<<"admin">>), WithSubject("subO")>>>>,
     <<BaseClaims, <<WithAudience(<<"audO">>)>>>>,
     <<BaseClaims, <<WithExpiresAt(T0)>>>>,
     <<BaseClaims, <<WithExpiresAt(0)>>>>,
     <<BaseClaims, <<WithExpiresAt(-TicksPerSec)>>>>,
     <<BaseClaims, <<WithIssuedAt(MaxClock - TicksPerSec)>>>>,
     <<BaseClaims, <<WithIssuedAt(T0 + TicksPerSec + 1), WithExpiresAt(MaxClock + TicksPerSec)>>>>,
     <<[BaseClaims EXCEPT !.Custom = GoMap("sub" :> Str("x") @@ "aud" :> Str("y"))], <<>>>>,
     <<[BaseClaims EXCEPT !.Custom = GoMap("exp" :> I64(MaxClockSec + 1))], <<>>>>,
     <<BaseClaims, <<WithSubject("a"), WithSubject("b")>>>>,
     <<BaseClaims, <<WithSubject("a"), FailOption("boom"), WithSubject("b")>>>>}

\* the issuance calls whose tokens are later refreshed or altered
RefreshIssueInputs ==
    {in \in IssueInputs :
        \/ in[2] = <<>> /\ in[1] \in {BaseClaims, FullClaims}
        \/ in[2] # <<>> /\ in[2][1].op = "WithAudience"}
    \cup {<<[BaseClaims EXCEPT !.Custom = GoMap("token_type" :> Str("access"))], <<>>>>}

TamperInputs == {<<BaseClaims, <<>>>>, <<FullClaims, <<>>>>}

ScopeInputs == {<<[BaseClaims EXCEPT !.Scopes = sc], <<>>>> : sc \in ScopeSeqs}

\* <<claims, pair options>> of a GenerateTokenPair call
PairInputs ==
    {<<BaseClaims, <<>>>>,
     <<FullClaims, <<WithRefreshToken>>>>,
     <<BaseClaims, <<WithRefreshToken, WithAccessTokenOptions(<<WithSubject("subA")>>),
                     WithRefreshTokenOptions(<<WithAudience(<<"audR">>)>>)>>>>,
     <<BaseClaims, <<WithAccessTokenOptions(<<WithSubject("a")>>),
                     WithAccessTokenOptions(<<WithSubject("b")>>)>>>>,
     <<BaseClaims, <<WithRefreshTokenOptions(<<WithSubject("subR")>>)>>>>,
     <<BaseClaims, <<WithRefreshToken, WithRefreshTokenOptions(<<FailOption("boom")>>)>>>>,
     <<BaseClaims, <<WithAccessTokenOptions(<<FailOption("boom")>>), WithRefreshToken>>>>,
     <<BaseClaims, <<FailPairOption("bang"), WithRefreshToken>>>>,
     <<BaseClaims, <<WithAccessTokenOptions(<<FailOption("boom")>>), FailPairOption("bang")>>>>,
     <<[BaseClaims EXCEPT !.Metadata = GoMap("c" :> Chan)], <<WithRefreshToken>>>>}

RefreshOptionSeqs ==
    {<<>>, <<WithExpiresAt(T0), WithSubject("subR")>>, <<FailOption("boom")>>}

ValidationOptionSeqs ==
    {<<>>, <<SkipExpiration>>, <<SkipValidation>>,
     <<WithRequiredScopes(<<"read">>)>>,
     <<WithRequiredIssuer("iss0")>>, <<WithRequiredAudience("aud0")>>,
     <<WithRequiredAudience("audO")>>,
     <<SkipValidation, WithRequiredScopes(<<"admin">>)>>,
     <<SkipExpiration, FailValidationOption("boom"), SkipValidation>>}

\* with a list that sets the same requirement twice
IssueOptionSeqs ==
    ValidationOptionSeqs \cup {<<WithRequiredAudience("audO"), WithRequiredAudience("aud0")>>}

\* the option lists tried on refreshed and altered token strings
CoreOptionSeqs == {<<>>, <<SkipExpiration>>, <<SkipValidation>>}

ScopeOptionSeqs ==
    {<<WithRequiredScopes(r)>> : r \in ScopeSeqs} \cup {<<>>}

\* wire claim sets that do not come from the generator (other issuers of the
\* same secret, attackers, direct callers of ExtractClaims)
WireInputs ==
    {"user_id" :> Str("u1") @@ "token_type" :> Str("access"),
     "user_id" :> Str("") @@ "token_type" :> Str("refresh"),
     "user_id" :> I64(7),
     "token_type" :> Str("refresh"),
     "user_id" :> Str("u1") @@ "token_type" :> Str("refresh")
        @@ "exp" :> I64(MaxClockSec + 1) @@ "nbf" :> F64(1) @@ "aud" :> I64(1)
        @@ "scopes" :> AnySlice(<<Str("read"), I64(3), Str("write")>>),
     "user_id" :> Str("u1") @@ "exp" :> Str("never") @@ "metadata" :> Str("m")}

\* <<alg, key, claim set>> of such a token
ForgeInputs ==
    {<<"HS256", "k1", mc>> : mc \in WireInputs}
    \cup {<<alg, "k2", "user_id" :> Str("u1") @@ "token_type" :> Str("refresh")>> :
             alg \in {"HS256", "RS256", "none"}}
    \cup {<<alg, "k1", "user_id" :> Str("u1") @@ "token_type" :> Str("refresh")>> :
             alg \in {"HS512", "RS256", "none"}}

\* a user id that differs from u in one byte
OtherUser(u) == IF u = "u1" THEN "u2" ELSE "u1"

\* -------------------------------------------------------------------- state
\* cfg     the service configuration
\* now     the clock
\* tok     the token string the callers hold
\* src     where tok comes from: how it was made, and the kind, claims and
\*         options of the issuance call at the root of its history
\* parent  the token string tok was derived from (by refresh or alteration)
\* last    the call that has just returned: its inputs, clock reads, result
NoSrc == [how |-> "none", kind |-> "", claims |-> BaseClaims, opts |-> <<>>]
NoCall == [op |-> "none"]

Init ==
    /\ cfg \in Configs
    /\ now = T0
    /\ tok = NoToken
    /\ src = NoSrc
    /\ parent = NoToken
    /\ last = NoCall

\* the clock advances between two calls
Tick ==
    /\ tok # NoToken
    /\ now < MaxClock
    /\ now' = now + 1
    /\ last' = NoCall
    /\ UNCHANGED <<cfg, tok, src, parent>>

\* GenerateAccessToken / GenerateRefreshToken is called
Issue(kind, claims, opts) ==
    /\ tok = NoToken
    /\ \E a \in Advances1 :
         LET t1 == now
             t2 == t1 + a[1]
         IN  /\ t2 <= MaxClock
             /\ \E r \in {IF kind = "access" THEN GenerateAccessToken(claims, opts, t1, t2)
                          ELSE GenerateRefreshToken(claims, opts, t1, t2)} :
                  /\ now' = t2
                  /\ last' = [op |-> "Generate", kind |-> kind, claims |-> claims,
                              opts |-> opts, t1 |-> t1, t2 |-> t2, err |-> r.err,
                              signed |-> r.signed]
                  /\ IF r.err = {}
                     THEN /\ tok' = r.signed.Token
                          /\ src' = [how |-> "issued", kind |-> kind, claims |-> claims,
                                     opts |-> opts]
                     ELSE UNCHANGED <<tok, src>>
    /\ UNCHANGED <<cfg, parent>>

IssueAccess == \E in \in IssueInputs : Issue("access", in[1], in[2])
IssueRefresh == \E in \in RefreshIssueInputs : Issue("refresh", in[1], in[2])
IssueScoped == \E in \in ScopeInputs : Issue("access", in[1], in[2])

\* GenerateTokenPair is called; the callers then hold the access token
IssuePair ==
    /\ tok = NoToken
    /\ \E in \in PairInputs, a \in Advances3 :
         LET t1 == now
             t2 == t1 + a[1]
             t3 == t2 + a[2]
             t4 == t3 + a[3]
         IN  /\ t4 <= MaxClock
             /\ \E applied \in {ApplyPairOptions(TokenPairConfig0, in[2])} :
                  \* the clock is read by the issuances only
                  /\ applied.err # {} => a = <<0, 0, 0>>
                  /\ (\/ ~applied.pc.IncludeRefresh
                      \/ GenerateAccessToken(in[1], applied.pc.AccessTokenOptions,
                                             t1, t2).err # {})
                        => a[2] = 0 /\ a[3] = 0
                  /\ \E r \in {GenerateTokenPair(in[1], in[2], t1, t2, t3, t4)} :
                       /\ now' = t4
                       /\ last' = [op |-> "GenerateTokenPair", claims |-> in[1],
                                   opts |-> in[2], t1 |-> t1, t3 |-> t3, err |-> r.err,
                                   pair |-> r.pair]
                       /\ IF r.err = {}
                          THEN /\ tok' = r.pair.AccessToken.Token
                               /\ src' = [how |-> "issued", kind |-> "access",
                                          claims |-> in[1],
                                          opts |-> applied.pc.AccessTokenOptions]
                          ELSE UNCHANGED <<tok, src>>
    /\ UNCHANGED <<cfg, parent>>

\* a validator that changes its secret when a validation fails
ValidateWith_Lockout(optSeqs) ==
    /\ tok # NoToken
    /\ \E opts \in optSeqs, a \in Advances2 :
         LET t1 == now
             t2 == t1 + a[1]
             t3 == t2 + a[2]
         IN  /\ t3 <= MaxClock
             /\ ~ReachesValidateClaims(tok, opts, t1) => a = <<0, 0>>
             /\ \E r \in {ValidateToken(tok, opts, t1, t2, t3)} :
                  /\ now' = t3
                  /\ last' = [op |-> "ValidateToken", opts |-> opts, t1 |-> t1,
                              t2 |-> t2, err |-> r.err, Claims |-> r.Claims,
                              IsValid |-> r.IsValid, ExpiresAt |-> r.ExpiresAt]
                  /\ cfg' = IF r.err # {} THEN [cfg EXCEPT !.Secret = "k2"] ELSE cfg
    /\ UNCHANGED <<tok, src, parent>>

\* ValidateToken is called on the token string
ValidateWith(optSeqs) ==
    /\ tok # NoToken
    /\ \E opts \in optSeqs, a \in Advances2 :
         LET t1 == now
             t2 == t1 + a[1]
             t3 == t2 + a[2]
         IN  /\ t3 <= MaxClock
             /\ ~ReachesValidateClaims(tok, opts, t1) => a = <<0, 0>>
             /\ \E r \in {ValidateToken(tok, opts, t1, t2, t3)} :
                  /\ now' = t3
                  /\ last' = [op |-> "ValidateToken", opts |-> opts, t1 |-> t1,
                              t2 |-> t2, err |-> r.err, Claims |-> r.Claims,
                              IsValid |-> r.IsValid, ExpiresAt |-> r.ExpiresAt]
    /\ UNCHANGED <<cfg, tok, src, parent>>

Validate ==
    ValidateWith(IF src.how \in {"issued", "foreign"}
                 THEN ValidationOptionSeqs ELSE CoreOptionSeqs)
ValidateIssued == ValidateWith(IssueOptionSeqs)
ValidateScopes == ValidateWith(ScopeOptionSeqs)

\* RefreshAccessToken is called on the token string; the caller then holds
\* the new token
Refresh ==
    /\ tok # NoToken
    /\ \E opts \in RefreshOptionSeqs, a \in Advances4 :
         LET t1 == now
             t2 == t1 + a[1]
             t3 == t2 + a[2]
             t4 == t3 + a[3]
             t5 == t4 + a[4]
         IN  /\ t5 <= MaxClock
             /\ ~ReachesValidateClaims(tok, <<>>, t1) => a[1] = 0 /\ a[2] = 0
             /\ \E v \in {ValidateToken(tok, <<>>, t1, t2, t3)} :
                  \E generated \in {v.err = {} /\ v.Claims.TokenType = "refresh"} :
                  \* the options are applied, and the clock read again, by the
                  \* generator only; on an input that is refused they are tried on
                  \* expired issued tokens
                  /\ ~generated => a[3] = 0 /\ a[4] = 0
                  /\ ~generated => (opts = <<>> \/ (src.how = "issued"
                                        /\ v.err \cap {"jwt.ErrTokenExpired"} # {}))
                  /\ \E r \in {RefreshAccessToken(tok, opts, t1, t2, t3, t4, t5)} :
                       /\ now' = t5
                       /\ last' = [op |-> "RefreshAccessToken", opts |-> opts,
                                   t1 |-> t1, t3 |-> t3, t4 |-> t4, inHow |-> src.how,
                                   inKind |-> src.kind, verr |-> v.err, err |-> r.err,
                                   signed |-> r.signed]
                       /\ IF r.err = {}
                          THEN /\ tok' = r.signed.Token
                               /\ src' = [src EXCEPT !.how = "refreshed"]
                               /\ parent' = tok
                          ELSE UNCHANGED <<tok, src, parent>>
    /\ UNCHANGED cfg

\* one byte of a token string made by the service is altered
Tamper ==
    /\ src.how = "issued"
    /\ <<src.claims, src.opts>> \in TamperInputs
    /\ \E t \in
         {[tok EXCEPT !.sig.pad = p] : p \in PadValues \ {tok.sig.pad}}
         \cup {[tok EXCEPT !.sig.flip = 1],
               [tok EXCEPT !.pay.json = FALSE],
               [tok EXCEPT !.pay.obj["user_id"] = <<"jstring", OtherUser(@[2])>>],
               [tok EXCEPT !.hdr.alg = "ES256"],
               [tok EXCEPT !.hdr.alg = "HS356"],
               [tok EXCEPT !.hdr.typ = "JWS"],
               [tok EXCEPT !.parts = 2]} :
         /\ tok' = t
         /\ parent' = tok
         /\ src' = [src EXCEPT !.how = "tampered"]
    /\ last' = NoCall
    /\ UNCHANGED <<cfg, now>>

\* the callers get a token string that the generator did not make
Forge ==
    /\ tok = NoToken
    /\ \E in \in ForgeInputs :
         /\ tok' = SignedString(in[1], in[3], in[2])
         /\ src' = [NoSrc EXCEPT !.how = "foreign"]
    /\ last' = NoCall
    /\ UNCHANGED <<cfg, now, parent>>

\* claimsParser.ExtractClaims is called on a claim set directly
Extract ==
    /\ tok = NoToken
    /\ \E mc \in WireInputs :
         LET r == ExtractClaims(mc)
         IN  last' = [op |-> "ExtractClaims", mc |-> mc, err |-> r.err, Claims |-> r.claims]
    /\ UNCHANGED <<cfg, now, tok, src, parent>>

Next ==
    \/ Tick
    \/ IssueAccess
    \/ IssueRefresh
    \/ Validate
    \/ Refresh
    \/ Tamper
    \/ Forge
    \/ Extract

Spec == Init /\ [][Next]_vars

\* issuance, of single tokens and of pairs, and validation of the issued token
NextIssue ==
    \/ Tick
    \/ IssueAccess
    \/ IssueRefresh
    \/ IssuePair
    \/ ValidateIssued

SpecIssue == Init /\ [][NextIssue]_vars

\* issuance of refresh tokens and of pairs, validation, and refresh
NextRefresh ==
    \/ Tick
    \/ IssueRefresh
    \/ IssuePair
    \/ Validate
    \/ Refresh

SpecRefresh == Init /\ [][NextRefresh]_vars

\* issuance and validation over all scope lists and required-scope lists
NextScopes ==
    \/ Tick
    \/ IssueScoped
    \/ ValidateScopes

SpecScopes == Init /\ [][NextScopes]_vars

\* ------------------------------------------------------------ vocabulary
\* the claim set on the wire of a token string, and what the codec makes of it
WireOf(t) == UnmarshalClaims(t.pay.obj)
Decode(t) == ExtractClaims(WireOf(t)).claims
SetOf(q) == {q[i] : i \in 1..Len(q)}

\* the keys the encoder writes itself
EncoderKeys == protectedKeys \cup {"scope"}
NoCollision(c) == (DOMAIN c.Custom.kv) \cap EncoderKeys = {}

\* the audience, scope and subject overrides that an option list leaves
Overrides(opts) ==
    ApplyTokenOptions([TokenKind |-> "", IssuedAt |-> 0, ExpiresAt |-> 0,
                       Audience |-> <<>>, Scope |-> <<>>, Subject |-> ""], opts).tc

\* error kinds
StructuralOrSignature(e) ==
    e \cap {"jwt.ErrTokenMalformed", "jwt.ErrTokenUnverifiable",
            "jwt.ErrTokenSignatureInvalid", "ErrInvalidSignature"} # {}
TokenExpired(e) == e \cap {"ErrTokenExpired", "jwt.ErrTokenExpired"} # {}

\* t lies in the validity window of the token string: not before nbf, before exp
NotBeforeOK(ts, t) == TimeUnix(getInt64Claim(WireOf(ts), "nbf")) <= t
Unexpired(ts, t) ==
    getInt64Claim(WireOf(ts), "exp") = 0 \/ t < TimeUnix(getInt64Claim(WireOf(ts), "exp"))

\* an option of the list returns an error
HasFail(opts) == \E i \in 1..Len(opts) : opts[i].op = "Fail"

\* the token string a RefreshAccessToken call was given
RefreshInput == IF last.err = {} THEN parent ELSE tok

\* ------------------------------------------------------------------ claims

\* C1: ValidateToken returns a ValidatedToken only for a well-formed token
\* string whose signature is the MAC of its own header and payload under the
\* configured secret, whatever the validation options.
C1_SignatureNeverBypassed ==
    (last.op = "ValidateToken" /\ last.err = {}) =>
        /\ tok.parts = 3 /\ tok.hdr.json /\ tok.pay.json
        /\ tok.sig.flip = 0
        /\ tok.sig.mac[2] = cfg.Secret
        /\ tok.sig.mac[3] = tok.hdr /\ tok.sig.mac[4] = tok.pay

C1_Witness ==
    /\ last.op = "ValidateToken"
    /\ last.opts = <<SkipValidation>>
    /\ src.how = "foreign"
    /\ tok.sig.mac[2] # cfg.Secret
    /\ tok.hdr.alg = "HS256"
    /\ last.err # {}

\* C2: ValidateToken of an issued token string with one byte altered fails
\* with an error of the structural/signature gate, whatever the options
\* (none of which fails itself).
C2_TamperRejected ==
    (last.op = "ValidateToken" /\ src.how = "tampered" /\ ~HasFail(last.opts)) =>
        (last.err # {} /\ StructuralOrSignature(last.err))

\* C3 (as stated): RefreshAccessToken of a token whose token_type is "access"
\* always fails with InvalidToken and returns no token.
C3_AccessAlwaysInvalidToken ==
    (last.op = "RefreshAccessToken" /\ RefreshInput.pay.json
       /\ getStringClaim(WireOf(RefreshInput), "token_type") = "access") =>
        (last.err = {"ErrInvalidToken"} /\ ~last.signed.present)

\* C3 (amended): RefreshAccessToken of a token whose token_type is "access"
\* never returns a token; it fails with the verifier's error when default
\* verification of the token fails, and with InvalidToken otherwise.
C3_AccessNeverRefreshable ==
    (last.op = "RefreshAccessToken" /\ RefreshInput.pay.json
       /\ getStringClaim(WireOf(RefreshInput), "token_type") = "access") =>
        /\ last.err # {} /\ ~last.signed.present
        /\ last.verr = {} => last.err = {"ErrInvalidToken"}
        /\ last.verr # {} => last.err = last.verr

C3_Witness ==
    /\ last.op = "RefreshAccessToken"
    /\ last.inHow = "issued" /\ last.inKind = "access"
    /\ getStringClaim(WireOf(tok), "token_type") = "access"
    /\ last.verr = {}
    /\ last.err = {"ErrInvalidToken"}

\* C4: ValidateToken of a token of the service whose exp has passed fails
\* with TokenExpired under default options, and succeeds under SkipExpiration.
C4_ExpiredUnlessSkipped ==
    (last.op = "ValidateToken" /\ src.how \in {"issued", "refreshed"}
       /\ getInt64Claim(WireOf(tok), "exp") > 0
       /\ Unix(last.t1) > getInt64Claim(WireOf(tok), "exp")
       /\ NotBeforeOK(tok, last.t1)) =>
        /\ last.opts = <<>> => TokenExpired(last.err)
        /\ last.opts = <<SkipExpiration>> => last.err = {}

\* C5: a token from GenerateAccessToken with no options has ExpiresIn equal
\* to the access TTL in seconds, and every SignedToken has ExpiresIn equal to
\* ExpiresAt - IssuedAt in whole seconds.
C5_ExpiresInIsTTL ==
    (last.op \in {"Generate", "RefreshAccessToken"} /\ last.err = {}) =>
        /\ last.signed.ExpiresIn = TruncSeconds(last.signed.ExpiresAt - last.signed.IssuedAt)
        /\ (last.op = "Generate" /\ last.kind = "access" /\ last.opts = <<>>) =>
              last.signed.ExpiresIn * TicksPerSec = cfg.AccessTokenTTL

\* C6: for a token issued with scope list S and validated, inside its
\* validity window, with required scopes R (not empty), validation succeeds
\* iff every element of R occurs in S, and fails with InvalidToken otherwise.
C6_ScopeContainment ==
    (last.op = "ValidateToken" /\ src.how = "issued"
       /\ Len(last.opts) = 1 /\ last.opts[1].op = "WithRequiredScopes"
       /\ Len(last.opts[1].seq) > 0
       /\ Unexpired(tok, now)) =>
        /\ last.err = {} <=> SetOf(last.opts[1].seq) \subseteq SetOf(src.claims.Scopes)
        /\ last.err # {} => last.err = {"ErrInvalidToken"}

C6_Witness ==
    /\ last.op = "ValidateToken"
    /\ last.opts = <<WithRequiredScopes(<<"read", "read">>)>>
    /\ src.claims.Scopes = <<"write", "read">>
    /\ last.err = {}

\* a value and what it is after a round trip through JSON
SameJSONValue(a, b) ==
    CASE a[1] = "string" -> b = a
      [] a[1] \in {"int64", "float64"} -> b = F64(a[2])
      [] OTHER -> FALSE
SameJSONMap(a, b) ==
    /\ DOMAIN a = DOMAIN b
    /\ \A k \in DOMAIN a : SameJSONValue(a[k], b[k])

\* C7 (as stated): the Claims decoded from a token issued from (c, cfg), c
\* without colliding custom keys, equal c in every field but the timestamps.
C7_RoundTripExact ==
    (last.op = "ValidateToken" /\ last.err = {} /\ src.how = "issued"
       /\ NoCollision(src.claims)) =>
        LET c == src.claims
            d == last.Claims
        IN  /\ d.UserID = c.UserID /\ d.TokenType = c.TokenType
            /\ d.ClientID = c.ClientID /\ d.DeviceID = c.DeviceID
            /\ d.SessionID = c.SessionID /\ d.Scopes = c.Scopes
            /\ d.Metadata = c.Metadata /\ d.Issuer = c.Issuer
            /\ d.Audience = c.Audience /\ d.Subject = c.Subject
            /\ d.Custom.kv = c.Custom.kv

\* C7 (amended): the Claims decoded from a token issued from (c, cfg), c
\* without colliding custom keys, have the user_id, client_id, device_id,
\* session_id and scopes of c; metadata and custom are those of c with every
\* number as a float64, custom with the added key scope when a scope override
\* is given; token_type is the kind of the issuing operation; issuer is c's or
\* else the service default; audience is empty under a per-call override,
\* else c's, else the service default; subject is the override, else c's,
\* else user_id.
C7_RoundTrip ==
    (last.op = "ValidateToken" /\ last.err = {} /\ src.how = "issued"
       /\ NoCollision(src.claims)) =>
        LET c == src.claims
            d == last.Claims
            o == Overrides(src.opts)
        IN  /\ d.UserID = c.UserID
            /\ d.ClientID = c.ClientID /\ d.DeviceID = c.DeviceID
            /\ d.SessionID = c.SessionID /\ d.Scopes = c.Scopes
            /\ d.Metadata.isNil = c.Metadata.isNil
            /\ SameJSONMap(c.Metadata.kv, d.Metadata.kv)
            /\ d.TokenType = src.kind
            /\ d.Issuer = (IF c.Issuer # "" THEN c.Issuer ELSE cfg.Issuer)
            /\ d.Audience = (IF Len(o.Audience) > 0 THEN ""
                             ELSE IF c.Audience # "" THEN c.Audience ELSE cfg.Audience)
            /\ d.Subject = (IF o.Subject # "" THEN o.Subject
                            ELSE IF c.Subject # "" THEN c.Subject ELSE c.UserID)
            /\ IF Len(o.Scope) > 0
               THEN /\ DOMAIN d.Custom.kv = (DOMAIN c.Custom.kv) \cup {"scope"}
                    /\ \A k \in DOMAIN c.Custom.kv : SameJSONValue(c.Custom.kv[k], d.Custom.kv[k])
                    /\ d.Custom.kv["scope"] = AnySlice([i \in 1..Len(o.Scope) |-> Str(o.Scope[i])])
               ELSE SameJSONMap(c.Custom.kv, d.Custom.kv)

C7_Witness ==
    /\ last.op = "ValidateToken" /\ last.err = {}
    /\ src.how = "issued" /\ src.kind = "access"
    /\ src.claims = FullClaims
    /\ Len(src.opts) = 3
    /\ last.Claims.Scopes = <<"write", "read">>
    /\ last.Claims.UserID = "u2"

\* C8: every Claims of a successful decode (ExtractClaims, or the claims of a
\* ValidatedToken) has a non-empty user_id.
C8_UserIDNonEmpty ==
    (last.op \in {"ExtractClaims", "ValidateToken"} /\ last.err = {}) =>
        last.Claims.UserID # ""

\* C9: RefreshAccessToken of a token from GenerateRefreshToken for user u,
\* inside its validity window, returns a SignedToken of access kind; the new
\* token string, inside its own validity window, passes default ValidateToken
\* with user_id u and token_type "access"; and RefreshAccessToken never
\* accepts a token string that a refresh produced.
C9_RefreshYieldsAccess ==
    /\ (last.op = "RefreshAccessToken" /\ last.inHow = "issued" /\ last.inKind = "refresh"
          /\ NoCollision(src.claims) /\ ~HasFail(last.opts)
          /\ NotBeforeOK(RefreshInput, last.t1) /\ Unexpired(RefreshInput, last.t3)) =>
           (last.err = {} /\ last.signed.present /\ last.signed.tokenKind = "access")
    /\ (last.op = "ValidateToken" /\ last.opts = <<>>
          /\ src.how = "refreshed" /\ src.kind = "refresh" /\ NoCollision(src.claims)
          /\ NotBeforeOK(tok, last.t1) /\ Unexpired(tok, now)) =>
           (last.err = {} /\ last.Claims.UserID = src.claims.UserID
              /\ last.Claims.TokenType = "access")
    /\ (last.op = "RefreshAccessToken" /\ last.inHow = "refreshed") =>
           (last.err # {} /\ ~last.signed.present)

C9_Witness ==
    /\ last.op = "ValidateToken" /\ last.opts = <<>>
    /\ src.how = "refreshed" /\ src.kind = "refresh"
    /\ src.claims = FullClaims
    /\ last.err = {}
    /\ last.Claims.UserID = "u2"
    /\ last.Claims.TokenType = "access"

\* C10: the access token of a RefreshAccessToken call without options decodes
\* to the user_id, client_id, device_id, session_id, scopes, metadata, issuer,
\* audience, subject and custom that the refresh token decodes to.
C10_RefreshCopiesFields ==
    (last.op = "RefreshAccessToken" /\ last.err = {} /\ last.opts = <<>>
       /\ last.inHow = "issued" /\ last.inKind = "refresh") =>
        LET d == Decode(tok)
            r == Decode(parent)
        IN  /\ d.UserID = r.UserID /\ d.ClientID = r.ClientID
            /\ d.DeviceID = r.DeviceID /\ d.SessionID = r.SessionID
            /\ d.Scopes = r.Scopes /\ d.Metadata = r.Metadata
            /\ d.Issuer = r.Issuer /\ d.Audience = r.Audience
            /\ d.Subject = r.Subject /\ d.Custom = r.Custom

\* C11: on the wire of an issued token (custom keys not colliding with the
\* encoder's), aud is the per-call override if one is given, else the Claims
\* audience if not empty, else the service default if not empty, else absent;
\* iss is the Claims issuer, else the service default, else absent; sub is the
\* per-call override, else the Claims subject, else user_id, and always present.
C11_WirePrecedence ==
    (src.how = "issued" /\ NoCollision(src.claims)) =>
        LET w == WireOf(tok)
            c == src.claims
            o == Overrides(src.opts)
        IN  /\ IF Len(o.Audience) > 0
               THEN "aud" \in DOMAIN w
                    /\ w["aud"] = AnySlice([i \in 1..Len(o.Audience) |-> Str(o.Audience[i])])
               ELSE IF c.Audience # ""
               THEN "aud" \in DOMAIN w /\ w["aud"] = Str(c.Audience)
               ELSE IF cfg.Audience # ""
               THEN "aud" \in DOMAIN w /\ w["aud"] = Str(cfg.Audience)
               ELSE "aud" \notin DOMAIN w
            /\ IF c.Issuer # ""
               THEN "iss" \in DOMAIN w /\ w["iss"] = Str(c.Issuer)
               ELSE IF cfg.Issuer # ""
               THEN "iss" \in DOMAIN w /\ w["iss"] = Str(cfg.Issuer)
               ELSE "iss" \notin DOMAIN w
            /\ "sub" \in DOMAIN w
            /\ w["sub"] = Str(IF o.Subject # "" THEN o.Subject
                              ELSE IF c.Subject # "" THEN c.Subject ELSE c.UserID)

C11_Witness ==
    /\ src.how = "issued"
    /\ last.op = "Generate" /\ last.err = {}
    /\ src.claims = FullClaims
    /\ cfg.Audience = "aud0"
    /\ Overrides(src.opts).Audience = <<"audO">>
    /\ WireOf(tok)["aud"] = AnySlice(<<Str("audO")>>)
    /\ WireOf(tok)["iss"] = Str("issC")
    /\ WireOf(tok)["sub"] = Str("subO")

\* the audience a token was issued with: the per-call override, else the
\* Claims audience, else the service default
IssuedAudience ==
    LET o == Overrides(src.opts)
    IN  IF Len(o.Audience) > 0 THEN o.Audience
        ELSE IF src.claims.Audience # "" THEN <<src.claims.Audience>>
        ELSE IF cfg.Audience # "" THEN <<cfg.Audience>>
        ELSE <<>>

\* C12: ValidateToken with a required audience A, of an issued token inside
\* its validity window, succeeds iff the audience the token was issued with
\* (override, Claims or service default) is A, and fails with InvalidToken
\* otherwise.
C12_RequiredAudience ==
    (last.op = "ValidateToken" /\ src.how = "issued" /\ NoCollision(src.claims)
       /\ Len(last.opts) = 1 /\ last.opts[1].op = "WithRequiredAudience"
       /\ NotBeforeOK(tok, last.t1) /\ Unexpired(tok, now)) =>
        /\ last.err = {} <=> IssuedAudience = <<last.opts[1].s>>
        /\ last.err # {} => last.err = {"ErrInvalidToken"}

\* the error of the first option of the list that fails
FirstFail(opts) ==
    LET i == CHOOSE i \in 1..Len(opts) :
                 opts[i].op = "Fail" /\ \A j \in 1..(i - 1) : opts[j].op # "Fail"
    IN  opts[i].s
\* the index of the last option of that name in the list, 0 if there is none
LastOf(opts, name) ==
    LET idx == {i \in 1..Len(opts) : opts[i].op = name}
    IN  IF idx = {} THEN 0 ELSE CHOOSE i \in idx : \A j \in idx : j <= i
\* json.Marshal accepts the metadata and custom values of the Claims
Encodable(c) ==
    /\ \A k \in DOMAIN c.Metadata.kv : Marshalable(c.Metadata.kv[k])
    /\ \A k \in DOMAIN c.Custom.kv : Marshalable(c.Custom.kv[k])
\* the token carries what the last option on each field of the list says
LastOptionWins(signed, opts) ==
    LET w == WireOf(signed.Token)
        iA == LastOf(opts, "WithAudience")
        iSc == LastOf(opts, "WithScope")
        iS == LastOf(opts, "WithSubject")
        iE == LastOf(opts, "WithExpiresAt")
        iI == LastOf(opts, "WithIssuedAt")
    IN  /\ (iA # 0 /\ Len(opts[iA].seq) > 0) =>
              w["aud"] = AnySlice([i \in 1..Len(opts[iA].seq) |-> Str(opts[iA].seq[i])])
        /\ (iSc # 0 /\ Len(opts[iSc].seq) > 0) =>
              w["scope"] = AnySlice([i \in 1..Len(opts[iSc].seq) |-> Str(opts[iSc].seq[i])])
        /\ (iS # 0 /\ opts[iS].s # "") => w["sub"] = Str(opts[iS].s)
        /\ iE # 0 => (signed.ExpiresAt = opts[iE].t /\ w["exp"] = F64(Unix(opts[iE].t)))
        /\ iI # 0 => (signed.IssuedAt = opts[iI].t /\ w["iat"] = F64(Unix(opts[iI].t)))

\* C13: in GenerateAccessToken, GenerateRefreshToken, GenerateTokenPair and
\* ValidateToken the options are applied in the order given, the last option
\* on a field deciding it; the first option that fails ends the call with
\* exactly its error and without a token, pair or ValidatedToken.
C13_OptionsInOrder ==
    /\ last.op = "Generate" =>
          IF HasFail(last.opts)
          THEN last.err = {FirstFail(last.opts)} /\ ~last.signed.present
          ELSE (last.err = {} /\ NoCollision(last.claims)) =>
                   LastOptionWins(last.signed, last.opts)
    /\ last.op = "ValidateToken" =>
          IF HasFail(last.opts)
          THEN last.err = {FirstFail(last.opts)} /\ ~last.Claims.present /\ ~last.IsValid
          ELSE (/\ src.how = "issued" /\ NoCollision(src.claims)
                /\ Len(last.opts) > 0
                /\ \A i \in 1..Len(last.opts) : last.opts[i].op = "WithRequiredAudience"
                /\ NotBeforeOK(tok, last.t1) /\ Unexpired(tok, now)) =>
                   (last.err = {} <=> Decode(tok).Audience = last.opts[Len(last.opts)].s)
    /\ last.op = "GenerateTokenPair" =>
          LET iA == LastOf(last.opts, "WithAccessTokenOptions")
              iR == LastOf(last.opts, "WithRefreshTokenOptions")
              aopts == IF iA = 0 THEN <<>> ELSE last.opts[iA].opts
              ropts == IF iR = 0 THEN <<>> ELSE last.opts[iR].opts
              wanted == LastOf(last.opts, "WithRefreshToken") # 0
          IN  IF HasFail(last.opts)
              THEN last.err = {FirstFail(last.opts)} /\ ~last.pair.present
              ELSE IF HasFail(aopts)
              THEN last.err = {FirstFail(aopts)} /\ ~last.pair.present
              ELSE IF wanted /\ HasFail(ropts) /\ Encodable(last.claims)
              THEN last.err = {FirstFail(ropts)} /\ ~last.pair.present
              ELSE (last.err = {} /\ NoCollision(last.claims)) =>
                       /\ LastOptionWins(last.pair.AccessToken, aopts)
                       /\ wanted => LastOptionWins(last.pair.RefreshToken, ropts)

C13_Witness ==
    /\ last.op = "Generate"
    /\ last.opts = <<WithSubject("a"), FailOption("boom"), WithSubject("b")>>
    /\ last.err = {"boom"}
    /\ ~last.signed.present
    /\ tok = NoToken

\* the aud, sub and scope keys of wire claim set w are those of an issuance
\* from Claims c with option list opts, and of no other option list
WireAsIssued(w, c, opts) ==
    LET o == Overrides(opts)
    IN  /\ IF Len(o.Audience) > 0
           THEN "aud" \in DOMAIN w
                /\ w["aud"] = AnySlice([i \in 1..Len(o.Audience) |-> Str(o.Audience[i])])
           ELSE IF c.Audience # "" THEN "aud" \in DOMAIN w /\ w["aud"] = Str(c.Audience)
           ELSE IF cfg.Audience # "" THEN "aud" \in DOMAIN w /\ w["aud"] = Str(cfg.Audience)
           ELSE "aud" \notin DOMAIN w
        /\ w["sub"] = Str(IF o.Subject # "" THEN o.Subject
                          ELSE IF c.Subject # "" THEN c.Subject ELSE c.UserID)
        /\ IF Len(o.Scope) > 0
           THEN "scope" \in DOMAIN w
                /\ w["scope"] = AnySlice([i \in 1..Len(o.Scope) |-> Str(o.Scope[i])])
           ELSE "scope" \notin DOMAIN w

\* C14: a successful GenerateTokenPair returns a pair with an access token,
\* and with a refresh token iff a pair option asked for one; the access token
\* follows the access-token options only and the refresh token the
\* refresh-token options only; a failing issuance of either token gives an
\* error and no pair.
C14_TokenPair ==
    last.op = "GenerateTokenPair" =>
        LET iA == LastOf(last.opts, "WithAccessTokenOptions")
            iR == LastOf(last.opts, "WithRefreshTokenOptions")
            aopts == IF iA = 0 THEN <<>> ELSE last.opts[iA].opts
            ropts == IF iR = 0 THEN <<>> ELSE last.opts[iR].opts
            wanted == LastOf(last.opts, "WithRefreshToken") # 0
        IN  /\ last.err = {} =>
                  /\ last.pair.present
                  /\ last.pair.AccessToken.present
                  /\ last.pair.AccessToken.tokenKind = "access"
                  /\ last.pair.RefreshToken.present <=> wanted
                  /\ wanted => last.pair.RefreshToken.tokenKind = "refresh"
                  /\ NoCollision(last.claims) =>
                        /\ WireAsIssued(WireOf(last.pair.AccessToken.Token), last.claims, aopts)
                        /\ wanted => WireAsIssued(WireOf(last.pair.RefreshToken.Token),
                                                  last.claims, ropts)
            /\ last.err # {} => ~last.pair.present
            /\ (~Encodable(last.claims) \/ HasFail(aopts) \/ (wanted /\ HasFail(ropts))) =>
                  last.err # {}

C14_Witness ==
    /\ last.op = "GenerateTokenPair" /\ last.err = {}
    /\ last.pair.RefreshToken.present
    /\ WireOf(last.pair.AccessToken.Token)["sub"] = Str("subA")
    /\ "aud" \notin DOMAIN WireOf(last.pair.AccessToken.Token)
    /\ WireOf(last.pair.RefreshToken.Token)["aud"] = AnySlice(<<Str("audR")>>)
    /\ WireOf(last.pair.RefreshToken.Token)["sub"] = Str("u1")

\* the token string passes the signature check and the decode
SignedAndDecodable(ts) ==
    /\ ts.parts = 3 /\ ts.hdr.json /\ ts.pay.json
    /\ ts.hdr.alg \in HMACAlgs
    /\ Verify(ts, cfg.Secret)
    /\ ExtractClaims(WireOf(ts)).err = {}

\* C15: with SkipValidation among the options (none of which fails),
\* ValidateToken succeeds for every token of the service that passes the
\* signature check and the decode, whatever its expiry and not-before and
\* whatever issuer, audience or scopes the same call requires.
C15_SkipValidationSkipsPolicy ==
    (last.op = "ValidateToken" /\ src.how \in {"issued", "refreshed"}
       /\ ~HasFail(last.opts) /\ LastOf(last.opts, "SkipValidation") # 0
       /\ SignedAndDecodable(tok)) =>
        (last.err = {} /\ last.IsValid)

\* C16: RefreshAccessToken fails with the verifier's error and issues no
\* token whenever default ValidateToken of its input fails; for an expired
\* refresh token the error is TokenExpired, whatever the caller's options.
C16_RefreshVerifiesFirst ==
    /\ (last.op = "RefreshAccessToken" /\ last.verr # {}) =>
          (last.err = last.verr /\ ~last.signed.present /\ src.how = last.inHow)
    /\ (last.op = "RefreshAccessToken" /\ last.inHow = "issued" /\ last.inKind = "refresh"
          /\ NumericDate(WireOf(RefreshInput), "exp").present
          /\ ~(last.t1 < TimeUnix(getInt64Claim(WireOf(RefreshInput), "exp")))) =>
          (TokenExpired(last.err) /\ ~last.signed.present)

C16_Witness ==
    /\ last.op = "RefreshAccessToken"
    /\ last.inHow = "issued" /\ last.inKind = "refresh"
    /\ Len(last.opts) = 2 /\ last.opts[1].op = "WithExpiresAt"
    /\ TokenExpired(last.err)
    /\ ~last.signed.present
    /\ tok.pay.obj["token_type"] = <<"jstring", "refresh">>

C18_KindByOperation ==
    (last.op = "Generate" /\ last.err = {}) =>
        /\ last.signed.present
        /\ IsAccessToken(last.signed) <=> last.kind = "access"
        /\ IsRefreshToken(last.signed) <=> last.kind = "refresh"
        /\ NoCollision(last.claims) => Decode(last.signed.Token).TokenType = last.kind
        /\ last.signed.TokenType = "Bearer"
        /\ AuthHeader(last.signed) = <<"Bearer", " ", tok>>

C18_Witness ==
    /\ last.op = "Generate" /\ last.err = {}
    /\ last.kind = "access"
    /\ last.claims.TokenType = "refresh"
    /\ IsAccessToken(last.signed) /\ ~IsRefreshToken(last.signed)
    /\ Decode(tok).TokenType = "access"
    /\ AuthHeader(last.signed)[1] = "Bearer"

\* the options of a validation call, as the call applies them
Applied(opts) == ApplyValidationOptions(ValidationConfig0, opts).vc

\* C19: the expiration gate comes first: ValidateToken (options not failing,
\* no SkipValidation) of a verified and decodable token that is expired when
\* the call reads the clock fails with TokenExpired and never with
\* InvalidToken, whatever issuer, audience or scopes the call requires; of a
\* token of the service inside its validity window it fails with InvalidToken
\* or succeeds.
C19_ExpirationFirst ==
    (last.op = "ValidateToken" /\ ~HasFail(last.opts) /\ ~Applied(last.opts).SkipValidation
       /\ SignedAndDecodable(tok) /\ NotBeforeOK(tok, last.t1)) =>
        LET exp == getInt64Claim(WireOf(tok), "exp")
            expiredAtParse == exp # 0 /\ ~(last.t1 < TimeUnix(exp))
            expiredAtGate == /\ ~Applied(last.opts).SkipExpiration
                             /\ exp > 0 /\ Unix(last.t2) > exp
        IN  /\ (expiredAtParse \/ expiredAtGate) =>
                  (TokenExpired(last.err) /\ "ErrInvalidToken" \notin last.err)
            /\ (src.how \in {"issued", "refreshed"} /\ Unexpired(tok, now) /\ last.err # {}) =>
                  last.err = {"ErrInvalidToken"}

C19_Witness ==
    /\ last.op = "ValidateToken"
    /\ last.opts = <<WithRequiredIssuer("iss0")>>
    /\ src.how = "issued" /\ cfg.Issuer = "" /\ src.claims.Issuer = ""
    /\ last.t1 < TimeUnix(getInt64Claim(WireOf(tok), "exp"))
    /\ Unix(last.t2) > getInt64Claim(WireOf(tok), "exp")
    /\ last.err = {"ErrTokenExpired"}

\* C20: a token issued with a per-call scope override S decodes with
\* Claims.Scopes = S, and ValidateToken with required scopes R, inside the
\* token's validity window, succeeds iff every element of R is in S.
C20_ScopeOverride ==
    (last.op = "ValidateToken" /\ src.how = "issued" /\ NoCollision(src.claims)
       /\ Len(Overrides(src.opts).Scope) > 0
       /\ NotBeforeOK(tok, last.t1) /\ Unexpired(tok, now)) =>
        LET S == Overrides(src.opts).Scope
        IN  /\ last.err = {} => last.Claims.Scopes = S
            /\ (Len(last.opts) = 1 /\ last.opts[1].op = "WithRequiredScopes"
                  /\ Len(last.opts[1].seq) > 0) =>
                  (last.err = {} <=> SetOf(last.opts[1].seq) \subseteq SetOf(S))

\* ------------------------------------------------------------------ decoding
\* wire claim sets given to ExtractClaims: user_id absent, a string or a
\* number, and one more key with a value of each dynamic type
WireValues ==
    {Str("x"), I64(3), F64(3), StrSlice(<<"read">>),
     AnySlice(<<Str("read"), I64(3), Str("write")>>),
     MapVal("role" :> Str("admin"))}

DecodeKeys == (protectedKeys \ {"user_id"}) \cup {"scope", "custom_field"}

DecodeInputs ==
    {u @@ f : u \in {EmptyKV, "user_id" :> Str("u1"), "user_id" :> I64(7)},
              f \in {EmptyKV} \cup {k :> v : k \in DecodeKeys, v \in WireValues}}

\* claimsParser.ExtractClaims is called on one of these claim sets
ExtractDecode ==
    /\ tok = NoToken
    /\ \E mc \in DecodeInputs :
         \E r \in {ExtractClaims(mc)} :
            last' = [op |-> "ExtractClaims", mc |-> mc, err |-> r.err, Claims |-> r.claims]
    /\ UNCHANGED <<cfg, now, tok, src, parent>>

NextDecode ==
    \/ Extract
    \/ ExtractDecode

SpecDecode == Init /\ [][NextDecode]_vars

RECURSIVE StringElems(_)
\* the string elements of a list of values, in their order
StringElems(q) ==
    IF q = <<>> THEN <<>>
    ELSE (IF Head(q)[1] = "string" THEN <<Head(q)[2]>> ELSE <<>>) \o StringElems(Tail(q))

\* the value of key k when it is present with one of the dynamic types, else zero
WireOr(mc, k, types, zero) ==
    IF k \in DOMAIN mc /\ mc[k][1] \in types THEN mc[k][2] ELSE zero

\* C21: ExtractClaims fails, with ErrInvalidClaims, exactly when user_id is
\* absent or not a string.  When it succeeds, every other string field is the
\* wire string or "" when the key is absent or not a string; exp, iat and nbf
\* are the wire number, the same for a float64 and an int64, or 0; scopes are
\* the string elements of the wire array in their order (nil when there is no
\* array); metadata is the wire object or nil.
C21_DecodeZeroValues ==
    (last.op = "ExtractClaims") =>
        LET mc == last.mc
            c == last.Claims
        IN  /\ last.err # {} <=> ~("user_id" \in DOMAIN mc /\ mc["user_id"][1] = "string")
            /\ last.err # {} => last.err = {"ErrInvalidClaims"}
            /\ last.err = {} =>
                 /\ c.UserID = mc["user_id"][2]
                 /\ c.TokenType = WireOr(mc, "token_type", {"string"}, "")
                 /\ c.ClientID = WireOr(mc, "client_id", {"string"}, "")
                 /\ c.DeviceID = WireOr(mc, "device_id", {"string"}, "")
                 /\ c.SessionID = WireOr(mc, "session_id", {"string"}, "")
                 /\ c.Issuer = WireOr(mc, "iss", {"string"}, "")
                 /\ c.Audience = WireOr(mc, "aud", {"string"}, "")
                 /\ c.Subject = WireOr(mc, "sub", {"string"}, "")
                 /\ c.ExpiresAt = WireOr(mc, "exp", {"float64", "int64"}, 0)
                 /\ c.IssuedAt = WireOr(mc, "iat", {"float64", "int64"}, 0)
                 /\ c.NotBefore = WireOr(mc, "nbf", {"float64", "int64"}, 0)
                 /\ c.Scopes = StringElems(WireOr(mc, "scopes", {"[]interface{}"}, <<>>))
                 /\ c.Metadata = IF "metadata" \in DOMAIN mc
                                    /\ mc["metadata"][1] = "map[string]interface{}"
                                 THEN GoMap(mc["metadata"][2]) ELSE NilMap

\* a claim set with a float64 nbf, an int64 exp, a numeric aud and a scopes
\* array with a number in it is decoded
C21_Witness ==
    /\ last.op = "ExtractClaims"
    /\ last.err = {}
    /\ {"exp", "nbf", "aud", "scopes"} \subseteq DOMAIN last.mc
    /\ last.mc["nbf"] = F64(1) /\ last.Claims.NotBefore = 1
    /\ last.mc["exp"][1] = "int64" /\ last.Claims.ExpiresAt = last.mc["exp"][2]
    /\ last.mc["aud"] = I64(1) /\ last.Claims.Audience = ""
    /\ Len(last.mc["scopes"][2]) = 3 /\ last.Claims.Scopes = <<"read", "write">>

\* C22: the custom map of a decoded token that the generator made holds
\* exactly the wire keys that the encoder does not write itself (user_id,
\* token_type, exp, iat, nbf, client_id, device_id, session_id, scopes,
\* metadata, iss, aud, sub, scope), with their wire values: none of these
\* keys is ever a key of a decoded custom map.
C22_CustomIsNonProtected ==
    (last.op = "ValidateToken" /\ last.err = {} /\ src.how = "issued") =>
        LET w == WireOf(tok)
            custom == last.Claims.Custom.kv
        IN  /\ DOMAIN custom = (DOMAIN w) \ EncoderKeys
            /\ \A k \in DOMAIN custom : custom[k] = w[k]

\* C23: a call reads the clock once.  A token issued with no options (custom
\* keys not colliding) has wire exp - iat equal to the TTL of its kind, also
\* when the clock advances during the call; and the result of the policy
\* gates of a ValidateToken call is the result of ValidateClaims with both
\* gates evaluated at one instant of the call.
C23_SingleClockRead ==
    /\ (last.op = "Generate" /\ last.err = {} /\ last.opts = <<>>
          /\ NoCollision(last.claims)) =>
          LET w == WireOf(last.signed.Token)
              ttl == IF last.kind = "access" THEN cfg.AccessTokenTTL
                     ELSE cfg.RefreshTokenTTL
          IN  (w["exp"][2] - w["iat"][2]) * TicksPerSec = ttl
    /\ (last.op = "ValidateToken" /\ ReachesValidateClaims(tok, last.opts, last.t1)) =>
          \E t \in last.t2..now :
             last.err = ValidateClaims(Decode(tok), Applied(last.opts), t, t)

\* the error of a not-before violation: kind InvalidToken, signalled by the
\* gate of ValidateClaims or by the library's own validation
NotYetValid(e) == e \cap {"ErrInvalidToken", "jwt.ErrTokenNotValidYet"} # {}

\* C24: every issued token (custom keys not colliding) carries nbf = iat, the
\* whole second of the issued-at override when there is one.  ValidateToken
\* (options not failing) of a verified and decodable token with nbf present
\* fails with InvalidToken as long as the clock is before nbf, whatever the
\* options, SkipExpiration included; a token of the generator is accepted,
\* with no option or with SkipExpiration, from nbf on while it is unexpired.
C24_NotBeforeGate ==
    /\ (last.op = "Generate" /\ last.err = {} /\ NoCollision(last.claims)) =>
          LET w == WireOf(last.signed.Token)
              i == LastOf(last.opts, "WithIssuedAt")
          IN  /\ w["nbf"] = w["iat"]
              /\ i # 0 => w["nbf"] = F64(Unix(last.opts[i].t))
    /\ (last.op = "ValidateToken" /\ ~HasFail(last.opts) /\ SignedAndDecodable(tok)) =>
          LET nbf == getInt64Claim(WireOf(tok), "nbf")
          IN  /\ (nbf # 0 /\ now < TimeUnix(nbf)) =>
                    (last.err # {} /\ NotYetValid(last.err))
              /\ (src.how = "issued" /\ last.opts \in {<<>>, <<SkipExpiration>>}
                    /\ TimeUnix(nbf) <= last.t1 /\ Unexpired(tok, now)) =>
                    last.err = {}

\* a token issued with an issued-at override in the future is accepted once
\* the clock has reached its nbf
C24_Witness ==
    /\ last.op = "ValidateToken" /\ last.err = {}
    /\ src.how = "issued" /\ LastOf(src.opts, "WithIssuedAt") # 0
    /\ getInt64Claim(WireOf(tok), "nbf") > Unix(T0)
    /\ TimeUnix(getInt64Claim(WireOf(tok), "nbf")) <= last.t1
    /\ last.opts = <<SkipExpiration>>

\* a custom value as it comes back from the wire
OnWire(v) == Unmarshal(Marshal(v))

\* C25: the custom entries are written last: every key of claims.Custom is on
\* the wire with the custom value, also a key that the encoder writes itself;
\* the decoded token carries the custom token_type, user_id and exp; and a
\* token of the generator whose custom token_type is "refresh", whichever
\* operation issued it, is accepted by RefreshAccessToken (options not
\* failing) inside its validity window.
C25_CustomOverwrites ==
    /\ (last.op = "Generate" /\ last.err = {}) =>
          \A k \in DOMAIN last.claims.Custom.kv :
             WireOf(last.signed.Token)[k] = OnWire(last.claims.Custom.kv[k])
    /\ (last.op = "ValidateToken" /\ last.err = {} /\ src.how = "issued") =>
          LET custom == src.claims.Custom.kv
          IN  /\ ("token_type" \in DOMAIN custom /\ custom["token_type"][1] = "string") =>
                    last.Claims.TokenType = custom["token_type"][2]
              /\ ("user_id" \in DOMAIN custom /\ custom["user_id"][1] = "string") =>
                    last.Claims.UserID = custom["user_id"][2]
              /\ ("exp" \in DOMAIN custom /\ custom["exp"][1] = "int64") =>
                    last.Claims.ExpiresAt = custom["exp"][2]
    /\ (last.op = "RefreshAccessToken" /\ last.inHow = "issued" /\ ~HasFail(last.opts)
          /\ "token_type" \in DOMAIN src.claims.Custom.kv
          /\ src.claims.Custom.kv["token_type"] = Str("refresh")
          /\ NotBeforeOK(RefreshInput, last.t1) /\ Unexpired(RefreshInput, last.t3)) =>
          (last.err = {} /\ last.signed.present)

\* an access token issued with custom token_type "refresh" and custom user_id
\* has been refreshed
C25_Witness ==
    /\ last.op = "RefreshAccessToken" /\ last.err = {}
    /\ last.inHow = "issued" /\ last.inKind = "access"
    /\ src.claims.UserID = "u1"
    /\ Decode(parent).TokenType = "refresh"
    /\ Decode(parent).UserID = "u2"
    /\ Decode(tok).UserID = "u2"

\* --------------------------------------------------------------- middleware
\* The Authorization header value is a sequence of atoms: a space, a word
\* without spaces, or a token string.
Space == [kind |-> "space", s |-> " ", t |-> NoToken]
Word(s) == [kind |-> "word", s |-> s, t |-> NoToken]
TokenAtom(t) == [kind |-> "token", s |-> "", t |-> t]

\* a string without dots: jwt.Parse finds one segment
Garbage == [parts |-> 1]

\* the token string that a part without spaces is
StringOf(part) ==
    IF part = <<>> THEN NoToken
    ELSE IF Len(part) = 1 /\ part[1].kind = "token" THEN part[1].t
    ELSE Garbage

\* strings.Split(auth, " ")
RECURSIVE Split(_)
Split(auth) ==
    IF \A i \in 1..Len(auth) : auth[i] # Space THEN <<auth>>
    ELSE LET i == CHOOSE j \in 1..Len(auth) :
                      auth[j] = Space /\ \A k \in 1..(j - 1) : auth[k] # Space
         IN  <<SubSeq(auth, 1, i - 1)>> \o Split(SubSeq(auth, i + 1, Len(auth)))

\* a middleware that takes the last word of any header as the token
ExtractToken_AnyScheme(auth) ==
    IF auth = <<>> THEN <<>>
    ELSE LET parts == Split(auth)
         IN  parts[Len(parts)]

\* manager.ExtractToken; <<>> is the empty string
ExtractToken(auth) ==
    IF auth = <<>> THEN <<>>
    ELSE LET parts == Split(auth)
         IN  IF Len(parts) # 2 \/ parts[1] # <<Word("Bearer")>> THEN <<>>
             ELSE parts[2]

\* claimsParser.ParseClaims on the *jwt.Token of a ValidatedToken
ParseClaims(token) ==
    IF ~token.present THEN [err |-> {"ErrInvalidToken"}, claims |-> NoClaims]
    ELSE ExtractClaims(token.Claims)

\* the echo context values, and the outcome of one request
NoContext == [keys |-> {}, user_id |-> "", token |-> NoToken, claims |-> NoClaims]
Unauthorized(msg) ==
    [status |-> 401, message |-> msg, nextCalled |-> FALSE, ctx |-> NoContext]

\* a middleware that lets access-kind tokens through only
JWTMiddleware_AccessOnly(auth, skip, t1, t2, t3) ==
    LET tokenString == ExtractToken(auth)
        token == ValidateToken(StringOf(tokenString), <<>>, t1, t2, t3)
        parsed == ParseClaims([present |-> TRUE,
                               Claims |-> UnmarshalClaims(StringOf(tokenString).pay.obj)])
    IN  IF skip THEN [status |-> 200, message |-> "", nextCalled |-> TRUE, ctx |-> NoContext]
        ELSE IF tokenString = <<>> THEN Unauthorized("missing authorization token")
        ELSE IF token.err # {} THEN Unauthorized("invalid or expired token")
        ELSE IF ~token.IsValid THEN Unauthorized("invalid token")
        ELSE IF parsed.err # {} THEN Unauthorized("invalid token claims")
        ELSE IF parsed.claims.TokenType # "access" THEN Unauthorized("invalid token")
        ELSE [status |-> 200, message |-> "", nextCalled |-> TRUE,
              ctx |-> [keys |-> {"user_id", "token", "claims"},
                       user_id |-> parsed.claims.UserID,
                       token |-> StringOf(tokenString),
                       claims |-> parsed.claims]]

\* the handler that manager.JWTMiddleware returns, on a request with header
\* auth; skip is the result of config.Skipper (FALSE when it is nil)
JWTMiddleware(auth, skip, t1, t2, t3) ==
    LET tokenString == ExtractToken(auth)
        token == ValidateToken(StringOf(tokenString), <<>>, t1, t2, t3)
        parsed == ParseClaims([present |-> TRUE,
                               Claims |-> UnmarshalClaims(StringOf(tokenString).pay.obj)])
    IN  IF skip THEN [status |-> 200, message |-> "", nextCalled |-> TRUE, ctx |-> NoContext]
        ELSE IF tokenString = <<>> THEN Unauthorized("missing authorization token")
        ELSE IF token.err # {} THEN Unauthorized("invalid or expired token")
        ELSE IF ~token.IsValid THEN Unauthorized("invalid token")
        ELSE IF parsed.err # {} THEN Unauthorized("invalid token claims")
        ELSE [status |-> 200, message |-> "", nextCalled |-> TRUE,
              ctx |-> [keys |-> {"user_id", "token", "claims"},
                       user_id |-> parsed.claims.UserID,
                       token |-> StringOf(tokenString),
                       claims |-> parsed.claims]]

\* the Authorization headers that a client holding token string t sends
Headers(t) ==
    {<<>>,
     <<Word("Bearer"), Space, TokenAtom(t)>>,
     <<Word("bearer"), Space, TokenAtom(t)>>,
     <<Word("Basic"), Space, TokenAtom(t)>>,
     <<TokenAtom(t)>>,
     <<Word("Bearer")>>,
     <<Word("Bearer"), Space>>,
     <<Word("Bearer"), Space, Space, TokenAtom(t)>>,
     <<Word("Bearer"), Space, TokenAtom(t), Space>>,
     <<Space, Word("Bearer"), Space, TokenAtom(t)>>,
     <<Word("Bearer"), Space, TokenAtom(t), Space, Word("x")>>,
     <<Word("Bearer"), Space, Word("x")>>,
     <<Word("Bearer"), Space, Word("x"), TokenAtom(t)>>}

\* a request passes through the middleware
Request ==
    /\ tok # NoToken
    /\ \E auth \in Headers(tok), skip \in BOOLEAN, a \in Advances2 :
         LET t1 == now
             t2 == t1 + a[1]
             t3 == t2 + a[2]
             ts == StringOf(ExtractToken(auth))
         IN  /\ t3 <= MaxClock
             /\ (skip \/ ~ReachesValidateClaims(ts, <<>>, t1)) => a = <<0, 0>>
             /\ \E r \in {JWTMiddleware(auth, skip, t1, t2, t3)} :
                  /\ now' = t3
                  /\ last' = [op |-> "JWTMiddleware", auth |-> auth, skip |-> skip,
                              t1 |-> t1, t2 |-> t2, t3 |-> t3, status |-> r.status,
                              message |-> r.message, nextCalled |-> r.nextCalled,
                              ctx |-> r.ctx]
    /\ UNCHANGED <<cfg, tok, src, parent>>

NextMiddleware ==
    \/ Tick
    \/ IssueAccess
    \/ IssueRefresh
    \/ Tamper
    \/ Forge
    \/ Request

SpecMiddleware == Init /\ [][NextMiddleware]_vars

\* the header value is "Bearer", one space, and a string without spaces
ExactBearer(auth) ==
    /\ Len(auth) >= 3
    /\ auth[1] = Word("Bearer")
    /\ auth[2] = Space
    /\ \A i \in 3..Len(auth) : auth[i] # Space

\* the string after "Bearer " in such a header
BearerString(auth) ==
    IF Len(auth) = 3 /\ auth[3].kind = "token" THEN auth[3].t ELSE Garbage

\* C26: the next handler runs if and only if the skipper matches, or the
\* Authorization header is exactly "Bearer <token>" and ValidateToken (no
\* options) accepts the token; in the second case the context holds user_id,
\* token and claims of that token when the handler runs; in every other case
\* the answer is 401 and the handler does not run.
C26_MiddlewareGate ==
    last.op = "JWTMiddleware" =>
        LET accepted ==
                /\ ExactBearer(last.auth)
                /\ ValidateToken(BearerString(last.auth), <<>>,
                                 last.t1, last.t2, last.t3).err = {}
        IN  /\ last.nextCalled <=> (last.skip \/ accepted)
            /\ (~last.skip /\ accepted) =>
                  /\ last.ctx.keys = {"user_id", "token", "claims"}
                  /\ last.ctx.token = tok
                  /\ last.ctx.claims = Decode(tok)
                  /\ last.ctx.user_id = Decode(tok).UserID
            /\ ~last.nextCalled => last.status = 401
            /\ last.nextCalled => last.status = 200
            /\ last.skip => last.ctx = NoContext

\* a request with a token of the generator has reached the handler with the
\* context filled, without the skipper
C26_Witness ==
    /\ last.op = "JWTMiddleware" /\ ~last.skip /\ last.nextCalled
    /\ src.how = "issued"
    /\ last.ctx.user_id = "u1"
    /\ last.ctx.token = tok

\* ------------------------------------------------------- refresh token reuse
\* GenerateAccessToken is called for another user while the callers hold tok
IssueOther ==
    /\ tok # NoToken
    /\ \E in \in TamperInputs, a \in Advances1 :
         LET t1 == now
             t2 == t1 + a[1]
         IN  /\ t2 <= MaxClock
             /\ \E r \in {GenerateAccessToken(in[1], in[2], t1, t2)} :
                  /\ now' = t2
                  /\ last' = [op |-> "Generate", kind |-> "access", claims |-> in[1],
                              opts |-> in[2], t1 |-> t1, t2 |-> t2, err |-> r.err,
                              signed |-> r.signed]
    /\ UNCHANGED <<cfg, tok, src, parent>>

\* RefreshAccessToken is called on the token string and the caller keeps the
\* string; parent is the newest access token made from it
RefreshKept ==
    /\ tok # NoToken
    /\ \E a \in Advances4 :
         LET t1 == now
             t2 == t1 + a[1]
             t3 == t2 + a[2]
             t4 == t3 + a[3]
             t5 == t4 + a[4]
         IN  /\ t5 <= MaxClock
             /\ ~ReachesValidateClaims(tok, <<>>, t1) => a[1] = 0 /\ a[2] = 0
             /\ \E v \in {ValidateToken(tok, <<>>, t1, t2, t3)} :
                  \* the generator, which reads the clock and applies the
                  \* options, runs on an accepted refresh token only
                  /\ ~(v.err = {} /\ v.Claims.TokenType = "refresh")
                        => (a[3] = 0 /\ a[4] = 0)
                  /\ \E opts \in IF v.err = {} /\ v.Claims.TokenType = "refresh"
                                  THEN RefreshOptionSeqs ELSE {<<>>} :
                     \E r \in {RefreshAccessToken(tok, opts, t1, t2, t3, t4, t5)} :
                       /\ now' = t5
                       /\ last' = [op |-> "RefreshAccessToken", opts |-> opts,
                                   t1 |-> t1, t3 |-> t3, t4 |-> t4, t5 |-> t5,
                                   prev |-> parent, verr |-> v.err, err |-> r.err,
                                   signed |-> r.signed]
                       /\ parent' = IF r.err = {} THEN r.signed.Token ELSE parent
    /\ UNCHANGED <<cfg, tok, src>>

NextReuse ==
    \/ Tick
    \/ IssueRefresh
    \/ IssueOther
    \/ Validate
    \/ RefreshKept

SpecReuse == Init /\ [][NextReuse]_vars

\* C27: a refresh token of the generator is accepted by RefreshAccessToken
\* (options not failing) and by default ValidateToken at every call inside
\* its validity window, whatever calls, successful refreshes of the same
\* token included, came before; and the access token of a refresh without an
\* expiry override expires at a clock reading of that call plus the access
\* TTL, whatever the expiry of the refresh token.
C27_RefreshTokenReusable ==
    LET usable(t) == /\ src.how = "issued" /\ Decode(tok).TokenType = "refresh"
                     /\ NotBeforeOK(tok, last.t1) /\ Unexpired(tok, t)
    IN  /\ (last.op = "RefreshAccessToken" /\ ~HasFail(last.opts) /\ usable(last.t3)) =>
              (last.err = {} /\ last.signed.present)
        /\ (last.op = "ValidateToken" /\ last.opts = <<>> /\ usable(now)) =>
              (last.err = {} /\ last.IsValid)
        /\ (last.op = "RefreshAccessToken" /\ last.err = {}
              /\ \A i \in 1..Len(last.opts) : last.opts[i].op # "WithExpiresAt") =>
              /\ \E t \in last.t1..now :
                    WireOf(last.signed.Token)["exp"] = F64(Unix(t + cfg.AccessTokenTTL))
              /\ WireOf(last.signed.Token)["exp"] = F64(Unix(last.t5 + cfg.AccessTokenTTL))

\* the same refresh token has been refreshed a second time, at a later
\* second than the first, and both access tokens expire before it does
C27_Witness ==
    /\ last.op = "RefreshAccessToken" /\ last.err = {} /\ last.opts = <<>>
    /\ last.prev # NoToken
    /\ WireOf(last.prev)["exp"][2] < WireOf(last.signed.Token)["exp"][2]
    /\ WireOf(last.signed.Token)["exp"][2] < WireOf(tok)["exp"][2]

\* C28: a token of the generator whose exp is absent, zero or negative is
\* not refused as expired at any time, and ValidateToken (no options, or
\* SkipExpiration, or SkipValidation) returns it with ExpiresAt the zero time.
C28_NoExpiryGateWithoutExp ==
    (last.op = "ValidateToken" /\ src.how = "issued"
       /\ getInt64Claim(WireOf(tok), "exp") <= 0
       /\ NotBeforeOK(tok, last.t1)) =>
        /\ ~TokenExpired(last.err)
        /\ last.opts \in CoreOptionSeqs => (last.err = {} /\ last.ExpiresAt = ZeroTime)

\* --------------------------------------------------------------- token kind
\* issuance of both kinds, validation, refresh and requests with the token
KindInputs ==
    {in \in IssueInputs :
        \/ in[2] = <<>> /\ in[1] \in {BaseClaims, FullClaims}
        \/ in[2] = <<>> /\ "token_type" \in DOMAIN in[1].Custom.kv
        \/ in[2] = <<WithIssuedAt(MaxClock - TicksPerSec)>>}

IssueAccessKinds == \E in \in KindInputs : Issue("access", in[1], in[2])

NextKinds ==
    \/ Tick
    \/ IssueAccessKinds
    \/ IssueRefresh
    \/ Validate
    \/ RefreshKept
    \/ Request

SpecKinds == Init /\ [][NextKinds]_vars

\* the token string with the other token_type, signed with the same key
OtherKind(t) ==
    LET pay == [t.pay EXCEPT !.obj["token_type"] =
                   <<"jstring", IF @[2] = "refresh" THEN "access" ELSE "refresh">>]
    IN  [t EXCEPT !.pay = pay, !.sig.mac = HMAC(t.hdr.alg, t.sig.mac[2], t.hdr, pay)]

\* C29: inside its validity window a token of the generator, of either kind,
\* passes the middleware in a "Bearer <token>" header and passes
\* ValidateToken; the result of ValidateToken and the status of the
\* middleware are those of the same token with the other kind; and
\* RefreshAccessToken (options not failing) accepts it if and only if its
\* decoded kind is refresh.
C29_KindNotChecked ==
    LET valid == /\ src.how = "issued"
                 /\ NotBeforeOK(tok, last.t1) /\ Unexpired(tok, now)
        bearer == <<Word("Bearer"), Space, TokenAtom(tok)>>
    IN  /\ (last.op = "JWTMiddleware" /\ ~last.skip /\ last.auth = bearer /\ valid) =>
              /\ last.nextCalled
              /\ last.ctx.claims.TokenType = Decode(tok).TokenType
        /\ (last.op = "JWTMiddleware" /\ src.how = "issued" /\ last.auth = bearer) =>
              last.status = JWTMiddleware(<<Word("Bearer"), Space, TokenAtom(OtherKind(tok))>>,
                                          last.skip, last.t1, last.t2, last.t3).status
        /\ (last.op = "ValidateToken" /\ last.opts \in CoreOptionSeqs /\ valid) =>
              last.err = {}
        /\ (last.op = "ValidateToken" /\ src.how = "issued") =>
              last.err = ValidateToken(OtherKind(tok), last.opts, last.t1, last.t2, now).err
        /\ (last.op = "RefreshAccessToken" /\ ~HasFail(last.opts) /\ valid) =>
              (last.err = {} <=> Decode(tok).TokenType = "refresh")

\* a refresh token of GenerateRefreshToken has authenticated a request
C29_Witness ==
    /\ last.op = "JWTMiddleware" /\ ~last.skip /\ last.nextCalled
    /\ src.how = "issued" /\ src.kind = "refresh"
    /\ last.ctx.claims.TokenType = "refresh"
    /\ last.ctx.token = tok

\* C30: a token string (three segments, JSON header and payload) whose
\* header alg is not an HMAC method is refused by ValidateToken under every
\* option list, whatever key made its signature: with InvalidSignature for a
\* registered method ("none" and asymmetric ones), as unverifiable for a name
\* that is no registered method; and every token of the generator has alg
\* HS256.
C30_HMACOnly ==
    /\ (last.op = "ValidateToken" /\ tok.parts = 3 /\ tok.hdr.json /\ tok.pay.json
          /\ tok.hdr.alg \notin HMACAlgs) =>
          /\ last.err # {} /\ ~last.IsValid
          /\ ~HasFail(last.opts) =>
                IF tok.hdr.alg \in RegisteredAlgs
                THEN "ErrInvalidSignature" \in last.err
                ELSE last.err = {"jwt.ErrTokenUnverifiable"}
    /\ (last.op \in {"Generate", "RefreshAccessToken"} /\ last.err = {}) =>
          last.signed.Token.hdr.alg = "HS256"

\* a token with alg "none" whose signature segment is made with the
\* configured secret has been refused with InvalidSignature under
\* SkipValidation
C30_Witness ==
    /\ last.op = "ValidateToken" /\ last.opts = <<SkipValidation>>
    /\ src.how = "foreign" /\ tok.hdr.alg = "none"
    /\ tok.sig.mac[2] = cfg.Secret
    /\ "ErrInvalidSignature" \in last.err

====
